---- MODULE Spec2Model ----
(***************************************************************************)
(* Model of the dxl2 Dynamixel bus driver (src/src/dxl2).                  *)
(*                                                                         *)
(* Bytes are integers 0..255 and byte strings are sequences.  A Python     *)
(* Optional value is a sequence of length at most one: <<>> is None and    *)
(* <<v>> is the value v.  The serial port is a record                      *)
(*   [buf: bytes waiting in the input buffer, reads: number of read calls, *)
(*    clock: elapsed time in units of ser.timeout]                         *)
(* threaded through the operators that model the functions reading from    *)
(* it.  A read that finds all the bytes it asks for in the buffer takes no *)
(* time; a read that finds fewer returns them after one full timeout.      *)
(***************************************************************************)
EXTENDS Integers, Sequences, FiniteSets, TLC

VARIABLES
    rxbuf,   \* bytes waiting unread in the serial input buffer
    wrote,   \* the byte strings handed to ser.write by the last call, in order
    nreads,  \* number of ser.read calls made by the last call
    wrote_at, \* for each ser.write of the last call, in order, the number of
             \* ser.read calls the call had made before it
    call,    \* the last call: its name and arguments
    sent,    \* what the bus delivered to the input buffer during the last call
    res,     \* the outcome of the last call: value returned or exception raised
    pc,      \* "idle" between calls, "done" when a call has returned or raised
    alerted, \* the call before the last one raised HardwareError
    env,     \* the class of traffic the bus delivers in this run
    run,     \* the header loop of a receive in progress: the bytes it
             \* holds and the time elapsed since it was entered
    builder  \* the SyncParams or BulkParams object being filled, with the
             \* names of the calls it accepted

vars ==
    <<rxbuf, wrote, nreads, wrote_at, call, sent, res, pc, alerted, env, run,
      builder>>

----------------------------------------------------------------------------
(* Generic list helpers (Python list semantics).                           *)

Min(a, b) == IF a < b THEN a ELSE b

SetMax(S) == CHOOSE m \in S : \A x \in S : x <= m

\* s[:n] for n >= 0
Take(s, n) == SubSeq(s, 1, Min(n, Len(s)))

\* s[n:] for n >= 0
Drop(s, n) == SubSeq(s, Min(n, Len(s)) + 1, Len(s))

\* s[:-n] for n >= 0 (empty when the list is shorter than n)
DropLast(s, n) == SubSeq(s, 1, Len(s) - n)

\* s[-n:] for n > 0 (the whole list when it is shorter than n)
TakeLast(s, n) == SubSeq(s, IF Len(s) > n THEN Len(s) - n + 1 ELSE 1, Len(s))

\* list.insert(i, b) with a 0-based index 0 <= i <= len
InsertAt(s, i, b) == SubSeq(s, 1, i) \o <<b>> \o SubSeq(s, i + 1, Len(s))

\* list.pop(i) with a 0-based index 0 <= i < len (the list that remains)
PopAt(s, i) == SubSeq(s, 1, i) \o SubSeq(s, i + 2, Len(s))

\* s[i : i + n] with a 0-based index
Slice(s, i, n) == SubSeq(s, i + 1, Min(i + n, Len(s)))

\* a ^ b on non-negative integers
RECURSIVE Xor(_, _)
Xor(a, b) ==
    IF a = 0 THEN b
    ELSE IF b = 0 THEN a
    ELSE (((a % 2) + (b % 2)) % 2) + 2 * Xor(a \div 2, b \div 2)

\* a & mask for a single-bit mask (a power of two)
HasBit(a, mask) == (a \div mask) % 2 = 1

None == << >>
Some(v) == <<v>>

----------------------------------------------------------------------------
(* The serial port (pyserial), as the driver uses it.                      *)

\* ser.read(n): up to n bytes; short only after the timeout has elapsed
ser_read(ser, n) ==
    [data |-> Take(ser.buf, n),
     ser  |-> [buf   |-> Drop(ser.buf, n),
               reads |-> ser.reads + 1,
               clock |-> ser.clock + (IF Len(ser.buf) < n THEN 1 ELSE 0),
               writes |-> ser.writes]]

\* ser.write(buffer): the port notes how many reads were made before it
ser_write(ser) == [ser EXCEPT !.writes = Append(@, ser.reads)]

\* the port after the calls of ser.write that handed over the buffers in
\* written, no read made in between
ser_wrote(ser, written) ==
    [ser EXCEPT !.writes = @ \o [k \in DOMAIN written |-> ser.reads]]

Port(buf) == [buf |-> buf, reads |-> 0, clock |-> 0, writes |-> << >>]

----------------------------------------------------------------------------
(* protocol_v2.py: byte codec                                              *)

BROADCAST_ID == \hFE
PING == \h01
READ == \h02
WRITE == \h03
REG_WRITE == \h04
ACTION_INSTRUCTION == \h05
FACTORY_RESET == \h06
REBOOT == \h08
CLEAR == \h10
CONTROL_TABLE_BACKUP == \h20
SYNC_WRITE == \h83

RECURSIVE split_bytes(_, _)
split_bytes(data, n_bytes) ==
    IF n_bytes = 0 THEN << >>
    ELSE <<data % 256>> \o split_bytes(data \div 256, n_bytes - 1)

\* faulty variant: the first byte is the most significant one
RECURSIVE merge_bytes_big(_)
merge_bytes_big(array) ==
    IF array = << >> THEN 0
    ELSE 256 * merge_bytes_big(DropLast(array, 1)) + array[Len(array)]

\* int.from_bytes(array, byteorder="little")
RECURSIVE merge_bytes(_)
merge_bytes(array) ==
    IF array = << >> THEN 0
    ELSE Head(array) + 256 * merge_bytes(Tail(array))

crc_table == <<
    \h0000, \h8005, \h800F, \h000A, \h801B, \h001E, \h0014, \h8011,
    \h8033, \h0036, \h003C, \h8039, \h0028, \h802D, \h8027, \h0022,
    \h8063, \h0066, \h006C, \h8069, \h0078, \h807D, \h8077, \h0072,
    \h0050, \h8055, \h805F, \h005A, \h804B, \h004E, \h0044, \h8041,
    \h80C3, \h00C6, \h00CC, \h80C9, \h00D8, \h80DD, \h80D7, \h00D2,
    \h00F0, \h80F5, \h80FF, \h00FA, \h80EB, \h00EE, \h00E4, \h80E1,
    \h00A0, \h80A5, \h80AF, \h00AA, \h80BB, \h00BE, \h00B4, \h80B1,
    \h8093, \h0096, \h009C, \h8099, \h0088, \h808D, \h8087, \h0082,
    \h8183, \h0186, \h018C, \h8189, \h0198, \h819D, \h8197, \h0192,
    \h01B0, \h81B5, \h81BF, \h01BA, \h81AB, \h01AE, \h01A4, \h81A1,
    \h01E0, \h81E5, \h81EF, \h01EA, \h81FB, \h01FE, \h01F4, \h81F1,
    \h81D3, \h01D6, \h01DC, \h81D9, \h01C8, \h81CD, \h81C7, \h01C2,
    \h0140, \h8145, \h814F, \h014A, \h815B, \h015E, \h0154, \h8151,
    \h8173, \h0176, \h017C, \h8179, \h0168, \h816D, \h8167, \h0162,
    \h8123, \h0126, \h012C, \h8129, \h0138, \h813D, \h8137, \h0132,
    \h0110, \h8115, \h811F, \h011A, \h810B, \h010E, \h0104, \h8101,
    \h8303, \h0306, \h030C, \h8309, \h0318, \h831D, \h8317, \h0312,
    \h0330, \h8335, \h833F, \h033A, \h832B, \h032E, \h0324, \h8321,
    \h0360, \h8365, \h836F, \h036A, \h837B, \h037E, \h0374, \h8371,
    \h8353, \h0356, \h035C, \h8359, \h0348, \h834D, \h8347, \h0342,
    \h03C0, \h83C5, \h83CF, \h03CA, \h83DB, \h03DE, \h03D4, \h83D1,
    \h83F3, \h03F6, \h03FC, \h83F9, \h03E8, \h83ED, \h83E7, \h03E2,
    \h83A3, \h03A6, \h03AC, \h83A9, \h03B8, \h83BD, \h83B7, \h03B2,
    \h0390, \h8395, \h839F, \h039A, \h838B, \h038E, \h0384, \h8381,
    \h0280, \h8285, \h828F, \h028A, \h829B, \h029E, \h0294, \h8291,
    \h82B3, \h02B6, \h02BC, \h82B9, \h02A8, \h82AD, \h82A7, \h02A2,
    \h82E3, \h02E6, \h02EC, \h82E9, \h02F8, \h82FD, \h82F7, \h02F2,
    \h02D0, \h82D5, \h82DF, \h02DA, \h82CB, \h02CE, \h02C4, \h82C1,
    \h8243, \h0246, \h024C, \h8249, \h0258, \h825D, \h8257, \h0252,
    \h0270, \h8275, \h827F, \h027A, \h826B, \h026E, \h0264, \h8261,
    \h0220, \h8225, \h822F, \h022A, \h823B, \h023E, \h0234, \h8231,
    \h8213, \h0216, \h021C, \h8219, \h0208, \h820D, \h8207, \h0202
>>

\* faulty variant: the table is indexed with the low byte of the crc
RECURSIVE crc_loop_low(_, _)
crc_loop_low(crc, packet) ==
    IF crc < 0 \/ packet = << >> THEN crc
    ELSE LET i == Xor(crc, Head(packet)) % 256
         IN  crc_loop_low(Xor(crc * 256, crc_table[i + 1]) % 65536, Tail(packet))

\* for byte in packet: i = ((crc >> 8) ^ byte) & 0xFF;
\* crc = ((crc << 8) ^ crc_table[i]) & 0xFFFF
\* (crc is never negative; looking at it first has each turn compute its
\* crc before the next turn begins, as the loop does)
RECURSIVE crc_loop(_, _)
crc_loop(crc, packet) ==
    IF crc < 0 \/ packet = << >> THEN crc
    ELSE LET i == Xor(crc \div 256, Head(packet)) % 256
         IN  crc_loop(Xor(crc * 256, crc_table[i + 1]) % 65536, Tail(packet))

calc_crc_16(packet) == crc_loop(0, packet)

----------------------------------------------------------------------------
(* protocol_v2.py: instruction and status packets                          *)

HEADER_V2 == <<\hFF, \hFF, \hFD, \h00>>

\* the dataclass constructor with its __post_init__: length and crc are
\* computed from the params the packet is built with
InstructionPacketV2(packet_id, instruction, params) ==
    LET length == Len(params) + 3
    IN  [packet_id   |-> packet_id,
         instruction |-> instruction,
         params      |-> params,
         length      |-> length,
         crc         |-> calc_crc_16(HEADER_V2 \o <<packet_id>>
                                     \o split_bytes(length, 2)
                                     \o <<instruction>> \o params)]

InstructionPacketV2_packet(tx) ==
    HEADER_V2 \o <<tx.packet_id>> \o split_bytes(tx.length, 2)
        \o <<tx.instruction>> \o tx.params \o split_bytes(tx.crc, 2)

\* the 0-based indices at which add_stuffing inserts 0xFD
stuffing_indices(params) ==
    { i + 3 : i \in { j \in 0 .. Len(params) - 3 :
                        Slice(params, j, 3) = <<\hFF, \hFF, \hFD>> } }

\* for i in reversed(indices): params.insert(i, 0xFD)
RECURSIVE insert_reversed(_, _)
insert_reversed(params, indices) ==
    IF indices = {} THEN params
    ELSE LET i == SetMax(indices)
         IN  insert_reversed(InsertAt(params, i, \hFD), indices \ {i})

\* faulty variant: the stuffed params are stored without rebuilding the packet, so
\* length and crc stay those of the unstuffed params
add_stuffing_stale(tx) ==
    [tx EXCEPT !.params = insert_reversed(tx.params, stuffing_indices(tx.params))]

\* replace(packet, params=params) runs __post_init__ again
add_stuffing(tx) ==
    InstructionPacketV2(tx.packet_id, tx.instruction,
                        insert_reversed(tx.params, stuffing_indices(tx.params)))

StatusPacketV2(packet_id, length, instruction, error, params, crc) ==
    [packet_id |-> packet_id, length |-> length, instruction |-> instruction,
     error |-> error, params |-> params, crc |-> crc]

StatusPacketV2_packet(rx) ==
    HEADER_V2 \o <<rx.packet_id>> \o split_bytes(rx.length, 2)
        \o <<rx.instruction, rx.error>> \o rx.params \o split_bytes(rx.crc, 2)

\* faulty variant: the crc is not compared
StatusPacketV2_valid_any(rx) == TRUE

StatusPacketV2_valid(rx) ==
    calc_crc_16(DropLast(StatusPacketV2_packet(rx), 2)) = rx.crc

\* faulty variant: range(len(params) - 4), which misses a match at the very end
unstuffing_indices_short(params) ==
    { i + 3 : i \in { j \in 0 .. Len(params) - 5 :
                        Slice(params, j, 4) = <<\hFF, \hFF, \hFD, \hFD>> } }

\* the 0-based indices of the bytes remove_stuffing pops
unstuffing_indices(params) ==
    { i + 3 : i \in { j \in 0 .. Len(params) - 4 :
                        Slice(params, j, 4) = <<\hFF, \hFF, \hFD, \hFD>> } }

\* for i in reversed(indices): params.pop(i)
RECURSIVE pop_reversed(_, _)
pop_reversed(params, indices) ==
    IF indices = {} THEN params
    ELSE LET i == SetMax(indices)
         IN  pop_reversed(PopAt(params, i), indices \ {i})

\* faulty variant: the packet is handed on with its stuffing
remove_stuffing_skipped(rx) == rx

remove_stuffing(rx) ==
    LET params == pop_reversed(rx.params, unstuffing_indices(rx.params))
        rx1    == [rx EXCEPT !.params = params]
    IN  [rx1 EXCEPT !.crc = calc_crc_16(DropLast(StatusPacketV2_packet(rx1), 2))]

----------------------------------------------------------------------------
(* protocol_v2.py: transmit and receive                                    *)

\* An outcome is what a call hands back: exc is the name of the exception
\* it raised ("" when it returned), hw_id the argument of HardwareError,
\* val the value returned (None when there is none), wrote the byte strings
\* written and ser the port as the call leaves it.
Outcome(exc, hw_id, val, written, ser) ==
    [exc |-> exc, hw_id |-> hw_id, val |-> val, wrote |-> written, ser |-> ser]

\* accepted is the count ser.write returns for the buffer
transmit(ser, tx, accepted) ==
    LET buffer == InstructionPacketV2_packet(add_stuffing(tx))
        count  == Min(accepted, Len(buffer))
    IN  Outcome(IF count < Len(buffer) THEN "ConnectionError" ELSE "",
                None, None, <<buffer>>, ser_write(ser))

\* for _ in range(n): if packet[:len(header)] == header: break; packet.pop(0)
RECURSIVE scan_header(_, _, _)
scan_header(packet, n, header) ==
    IF n = 0 THEN [found |-> FALSE, packet |-> packet]
    ELSE IF Take(packet, Len(header)) = header
         THEN [found |-> TRUE, packet |-> packet]
    ELSE scan_header(Tail(packet), n - 1, header)

\* the while loop of find_header; t0 is the clock when it was entered
RECURSIVE find_header_loop(_, _, _)
find_header_loop(ser, packet, t0) ==
    LET r == ser_read(ser, 4 - Len(packet))
        p == packet \o r.data
        s == scan_header(p, Len(p), HEADER_V2)
    IN  IF s.found THEN [found |-> TRUE, ser |-> r.ser]
        ELSE IF r.ser.clock - t0 >= 1 THEN [found |-> FALSE, ser |-> r.ser]
        ELSE find_header_loop(r.ser, s.packet, t0)

find_header(ser) == find_header_loop(ser, << >>, ser.clock)

\* faulty variant: any non-zero error byte counts as an alert
hardware_alert_any(error) == error # 0

\* rx.error & 0x80
hardware_alert(error) == HasBit(error, \h80)

\* faulty variant: the alert is raised before the two CRC bytes are read
receive_body_alert_early(packet_id, length, rest, ser) ==
    IF Len(rest) < 2
    THEN Outcome("IndexError", None, None, << >>, ser)
    ELSE
    LET rest2 == Drop(rest, 2)
        rx0 == StatusPacketV2(packet_id, length, rest[1], rest[2],
                              DropLast(rest2, 2), merge_bytes(TakeLast(rest2, 2)))
        rx  == IF StatusPacketV2_valid(rx0) THEN remove_stuffing(rx0) ELSE rx0
    IN  IF hardware_alert(rx.error)
        THEN Outcome("HardwareError", Some(packet_id), None, << >>,
                     [ser EXCEPT !.buf = TakeLast(rest, 2) \o ser.buf])
        ELSE Outcome("", None, Some(rx), << >>, ser)

\* receive, from the packet it has read in full: rest holds `length` bytes
receive_body(packet_id, length, rest, ser) ==
    IF Len(rest) < 2
    THEN Outcome("IndexError", None, None, << >>, ser)   \* rest.pop(0) on []
    ELSE
    LET instruction == rest[1]
        error       == rest[2]
        rest2       == Drop(rest, 2)
        params      == DropLast(rest2, 2)
        crc         == merge_bytes(TakeLast(rest2, 2))
        rx0 == StatusPacketV2(packet_id, length, instruction, error, params, crc)
        rx  == IF StatusPacketV2_valid(rx0) THEN remove_stuffing(rx0) ELSE rx0
    IN  IF hardware_alert(rx.error)
        THEN Outcome("HardwareError", Some(packet_id), None, << >>, ser)
        ELSE Outcome("", None, Some(rx), << >>, ser)

\* faulty variant: the packet is built from what arrived of the rest
receive_rest_partial(packet_id, length, ser) ==
    LET r == ser_read(ser, length)
    IN  receive_body(packet_id, length, r.data, r.ser)

\* receive, from the length it has read: reads the rest of the packet
receive_rest(packet_id, length, ser) ==
    LET r == ser_read(ser, length)
    IN  IF Len(r.data) < length
        THEN Outcome("", None, None, << >>, r.ser)
        ELSE receive_body(packet_id, length, r.data, r.ser)

\* receive, from the header it has found: b is what ser.read(3) gave
receive_packet(b) ==
    IF Len(b.data) < 3 THEN Outcome("", None, None, << >>, b.ser)
    ELSE receive_rest(b.data[1], merge_bytes(SubSeq(b.data, 2, 3)), b.ser)

\* val is None or Some(StatusPacketV2)
receive(ser) ==
    LET h == find_header(ser)
    IN  IF ~h.found THEN Outcome("", None, None, << >>, h.ser)
        ELSE receive_packet(ser_read(h.ser, 3))

----------------------------------------------------------------------------
(* response.py                                                             *)

Response(timeout, corrupted, error, dxl_id, data) ==
    [timeout |-> timeout, corrupted |-> corrupted, error |-> error,
     dxl_id |-> dxl_id, data |-> data]

Response_from_rx(rx) ==
    Response(Some(FALSE), Some(~StatusPacketV2_valid(rx)), Some(rx.error),
             Some(rx.packet_id), Some(rx.params))

\* faulty variant: a missing flag counts as set
Truthy_none(opt) == opt = None \/ opt[1]

\* Python truth of an Optional[bool]: None is falsy
Truthy(opt) == opt # None /\ opt[1]

\* faulty variant: the error byte is not looked at
Response_ok_ignores_error(r) == ~Truthy(r.timeout) /\ ~Truthy(r.corrupted)

Response_ok(r) ==
    LET ok == ~Truthy(r.timeout) /\ ~Truthy(r.corrupted)
    IN  IF r.error = None THEN ok ELSE ok /\ r.error[1] = 0

----------------------------------------------------------------------------
(* protocol_v2.py: the transaction engine and the unicast operations       *)

\* the Response get_response builds from what receive returned
response_of(rx) ==
    IF rx = None THEN Response(Some(TRUE), Some(FALSE), None, None, None)
    ELSE IF ~StatusPacketV2_valid(rx[1])
        THEN Response(Some(FALSE), Some(TRUE), None, None, None)
    ELSE Response_from_rx(rx[1])

\* get_response, from the outcome o of receive: an exception of receive
\* goes through, a return value becomes a Response
get_response_return(written, o) ==
    IF o.exc # "" THEN [o EXCEPT !.wrote = written]
    ELSE Outcome("", None, Some(response_of(o.val)), written, o.ser)

\* get_response, from the outcome t of transmit; reply is what the bus
\* delivers to the input buffer once the instruction has been written
\* faulty variant: the status is read although the write fell short
get_response_receive_unchecked(t, ser, reply) ==
    get_response_return(t.wrote,
                        receive([t.ser EXCEPT !.buf = t.ser.buf \o reply]))

get_response_receive(t, ser, reply) ==
    IF t.exc # "" THEN t
    ELSE get_response_return(t.wrote,
                             receive([t.ser EXCEPT !.buf = t.ser.buf \o reply]))

get_response(ser, tx, accepted, reply) ==
    get_response_receive(transmit(ser, tx, accepted), ser, reply)

\* the outcome of a call whose Response went through a decoder: d is what
\* the decoder handed back, or the exception it raised
decoded(o, d) ==
    IF d.exc # "" THEN [o EXCEPT !.exc = d.exc, !.val = None]
    ELSE [o EXCEPT !.val = Some(d.r)]

\* data[2] raises IndexError on fewer than three params
parse_ping(r) ==
    LET data == r.data[1]
    IN  IF Len(data) < 3 THEN [exc |-> "IndexError", r |-> r]
        ELSE [exc |-> "",
              r   |-> [r EXCEPT !.data = Some(
                        [model_number     |-> merge_bytes(Take(data, 2)),
                         firmware_version |-> data[3],
                         dxl_id           |-> r.dxl_id[1]])]]

parse_bytes(r) ==
    [exc |-> "", r |-> [r EXCEPT !.data = Some(merge_bytes(r.data[1]))]]

\* if r.ok: r = parse_ping(r)
ping_return(o) ==
    IF o.exc = "" /\ Response_ok(o.val[1])
    THEN decoded(o, parse_ping(o.val[1]))
    ELSE o

ping(ser, dxl_id, accepted, reply) ==
    ping_return(get_response(ser, InstructionPacketV2(dxl_id, PING, << >>),
                             accepted, reply))

\* if r.ok: r = parse_bytes(r)
read_return(o) ==
    IF o.exc = "" /\ Response_ok(o.val[1])
    THEN decoded(o, parse_bytes(o.val[1]))
    ELSE o

read(ser, dxl_id, address, length, accepted, reply) ==
    read_return(get_response(ser,
                    InstructionPacketV2(dxl_id, READ,
                        split_bytes(address, 2) \o split_bytes(length, 2)),
                    accepted, reply))

_write(ser, dxl_id, instruction, address, length, value, accepted, reply) ==
    get_response(ser,
        InstructionPacketV2(dxl_id, instruction,
            split_bytes(address, 2) \o split_bytes(value, length)),
        accepted, reply)

_send(ser, dxl_id, instruction, params, accepted, reply) ==
    get_response(ser, InstructionPacketV2(dxl_id, instruction, params),
                 accepted, reply)

----------------------------------------------------------------------------
(* protocol_v2.py: the gather operations and the multi-device writes       *)

SYNC_READ == \h82
BULK_READ == \h92
BULK_WRITE == \h93

\* One turn of stream_response's loop, from what receive returned: the
\* Response it yields and whether the generator goes on after it. counted
\* tells the `for _ in range(count)` loop from the `while True` loop.
stream_response_yield(rx, counted) ==
    IF rx = None
    THEN [r    |-> Response(Some(TRUE), Some(FALSE), None, None, None),
          more |-> FALSE]
    ELSE IF ~StatusPacketV2_valid(rx[1])
        THEN [r    |-> IF counted
                       THEN Response(Some(FALSE), Some(TRUE), None, None, None)
                       ELSE Response_from_rx(rx[1]),
              more |-> FALSE]
    ELSE [r |-> Response_from_rx(rx[1]), more |-> TRUE]

RECURSIVE _sync_read_loop(_, _, _, _)

\* faulty variant: the turns are not counted, the loop goes on until a
\* receive finds nothing
_sync_read_body_uncounted(y, ser, n, data) ==
    _sync_read_loop(ser, IF y.more THEN n ELSE 0,
                    IF Response_ok(y.r)
                    THEN Append(data, merge_bytes(y.r.data[1]))
                    ELSE data,
                    Some(y.r))

\* the body of `for r in stream_response(...)`: if r.ok the value is added
_sync_read_body(y, ser, n, data) ==
    _sync_read_loop(ser, IF y.more THEN n - 1 ELSE 0,
                    IF Response_ok(y.r)
                    THEN Append(data, merge_bytes(y.r.data[1]))
                    ELSE data,
                    Some(y.r))

\* a turn of the generator, from the outcome o of its receive: an exception
\* of receive leaves the loop and the call
_sync_read_turn(o, n, data) ==
    IF o.exc # "" THEN o
    ELSE _sync_read_body(stream_response_yield(o.val, TRUE), o.ser, n, data)

\* _sync_read after transmit: n turns are left, data is the list built so
\* far and r the last Response yielded (None before the first)
_sync_read_loop(ser, n, data, r) ==
    IF n = 0
    THEN Outcome("", None,
                 Some(IF r = None
                      THEN Response(Some(TRUE), Some(FALSE), None, None, None)
                      ELSE [r[1] EXCEPT !.data = Some(data)]),
                 << >>, ser)
    ELSE _sync_read_turn(receive(ser), n, data)

\* the outcome of a gather, from the outcome t of transmit and the outcome o
\* of the loop that followed
gathered(t, o) == IF t.exc # "" THEN t ELSE [o EXCEPT !.wrote = t.wrote]

_sync_read(ser, tx, dxl_ids, accepted, reply) ==
    gathered(transmit(ser, tx, accepted),
             _sync_read_loop([transmit(ser, tx, accepted).ser
                                  EXCEPT !.buf = ser.buf \o reply],
                             Len(dxl_ids), << >>, None))

sync_read(ser, dxl_ids, address, length, accepted, reply) ==
    _sync_read(ser,
        InstructionPacketV2(BROADCAST_ID, SYNC_READ,
            split_bytes(address, 2) \o split_bytes(length, 2) \o dxl_ids),
        dxl_ids, accepted, reply)

\* for dxl_id, address, length in zip(...): id, address (2), length (2)
RECURSIVE bulk_read_params(_, _, _)
bulk_read_params(dxl_ids, addresses, lengths) ==
    IF dxl_ids = << >> \/ addresses = << >> \/ lengths = << >> THEN << >>
    ELSE <<Head(dxl_ids)>> \o split_bytes(Head(addresses), 2)
             \o split_bytes(Head(lengths), 2)
             \o bulk_read_params(Tail(dxl_ids), Tail(addresses), Tail(lengths))

bulk_read(ser, dxl_ids, addresses, lengths, accepted, reply) ==
    _sync_read(ser,
        InstructionPacketV2(BROADCAST_ID, BULK_READ,
            bulk_read_params(dxl_ids, addresses, lengths)),
        dxl_ids, accepted, reply)

\* for dxl_id, value in zip(dxl_ids, values): id, value (length bytes)
RECURSIVE sync_write_params(_, _, _)
sync_write_params(dxl_ids, length, values) ==
    IF dxl_ids = << >> \/ values = << >> THEN << >>
    ELSE <<Head(dxl_ids)>> \o split_bytes(Head(values), length)
             \o sync_write_params(Tail(dxl_ids), length, Tail(values))

\* transmit only: nothing is read
sync_write(ser, dxl_ids, address, length, values, accepted) ==
    transmit(ser,
        InstructionPacketV2(BROADCAST_ID, SYNC_WRITE,
            split_bytes(address, 2) \o split_bytes(length, 2)
                \o sync_write_params(dxl_ids, length, values)),
        accepted)

\* for dxl_id, address, length, value in zip(...): id, address (2),
\* length (2), value (length bytes)
RECURSIVE bulk_write_params(_, _, _, _)
bulk_write_params(dxl_ids, addresses, lengths, values) ==
    IF dxl_ids = << >> \/ addresses = << >> \/ lengths = << >> \/ values = << >>
    THEN << >>
    ELSE <<Head(dxl_ids)>> \o split_bytes(Head(addresses), 2)
             \o split_bytes(Head(lengths), 2)
             \o split_bytes(Head(values), Head(lengths))
             \o bulk_write_params(Tail(dxl_ids), Tail(addresses),
                                  Tail(lengths), Tail(values))

\* transmit only: nothing is read
bulk_write(ser, dxl_ids, addresses, lengths, values, accepted) ==
    transmit(ser,
        InstructionPacketV2(BROADCAST_ID, BULK_WRITE,
            bulk_write_params(dxl_ids, addresses, lengths, values)),
        accepted)

\* faulty variant: the new entry replaces the ones gathered before
dict_replace(data, key, value) == [k \in {key} |-> value]

\* data.update({id: {...}}): data is a function from ids to entries
dict_update(data, key, value) ==
    [k \in DOMAIN data \cup {key} |-> IF k = key THEN value ELSE data[k]]

RECURSIVE broadcast_ping_loop(_, _)

\* the body of `for r in stream_response(self.serial, tx)`, and the lines
\* after the loop: `break` on a Response that is not ok; the loop also ends
\* when the generator is exhausted
broadcast_ping_body(y, ser, data) ==
    IF ~Response_ok(y.r)
    THEN Outcome("", None,
                 Some([y.r EXCEPT !.timeout = Some(FALSE), !.data = Some(data)]),
                 << >>, ser)
    ELSE LET d == parse_ping(y.r)
         IN  IF d.exc # "" THEN Outcome(d.exc, None, None, << >>, ser)
             ELSE IF ~y.more
                 THEN Outcome("", None,
                          Some([y.r EXCEPT !.timeout = Some(FALSE),
                                           !.data = Some(dict_update(data,
                                               y.r.dxl_id[1],
                                               [model_number |-> d.r.data[1].model_number,
                                                firmware_version |-> d.r.data[1].firmware_version]))]),
                          << >>, ser)
             ELSE broadcast_ping_loop(ser,
                      dict_update(data, y.r.dxl_id[1],
                          [model_number |-> d.r.data[1].model_number,
                           firmware_version |-> d.r.data[1].firmware_version]))

\* a turn of the generator, from the outcome o of its receive
broadcast_ping_turn(o, data) ==
    IF o.exc # "" THEN o
    ELSE broadcast_ping_body(stream_response_yield(o.val, FALSE), o.ser, data)

\* broadcast_ping after transmit; the generator yields at least once, so
\* `r is None` does not happen
broadcast_ping_loop(ser, data) == broadcast_ping_turn(receive(ser), data)

broadcast_ping(ser, accepted, reply) ==
    gathered(transmit(ser, InstructionPacketV2(BROADCAST_ID, PING, << >>),
                      accepted),
             broadcast_ping_loop(
                 [transmit(ser, InstructionPacketV2(BROADCAST_ID, PING, << >>),
                           accepted).ser
                  EXCEPT !.buf = ser.buf \o reply], << >>))

----------------------------------------------------------------------------
(* protocol_v2.py: parse_nested and the fast reads                         *)

FAST_SYNC_READ == \h8A
FAST_BULK_READ == \h9A

\* what parse_nested hands back: a Response r, or the exception it raised
Parsed(exc, hw_id, r) == [exc |-> exc, hw_id |-> hw_id, r |-> r]

RECURSIVE parse_nested_loop(_, _, _, _)

\* faulty variant: the value is taken from the CRC bytes on
parse_nested_value_early(packet) == merge_bytes(Drop(packet, 2))

\* merge_bytes(packet[4:])
parse_nested_value(packet) == merge_bytes(Drop(packet, 4))

\* packet_id = packet[3]
parse_nested_alert_id(r, packet) == packet[4]

\* one turn of `for length in lengths[1:]` on packet = r.data[start :
\* start + length + 4]: packet[2] and packet[3] raise IndexError on a
\* packet that is too short
parse_nested_turn(r, rest, start, data, packet) ==
    IF Len(packet) < 3 THEN Parsed("IndexError", None, r)
    ELSE IF hardware_alert(packet[3])
        THEN IF Len(packet) < 4 THEN Parsed("IndexError", None, r)
             ELSE Parsed("HardwareError", Some(parse_nested_alert_id(r, packet)), r)
    ELSE IF packet[3] % 8 # 0                        \* (error & 0x07) != 0
        THEN Parsed("", None,
                    Response(Some(FALSE), Some(FALSE), Some(packet[3]), None,
                             Some(data)))
    ELSE parse_nested_loop(r, Tail(rest), start + Head(rest) + 4,
                           Append(data, parse_nested_value(packet)))

\* the loop over lengths[1:], rest being the lengths still to come
parse_nested_loop(r, rest, start, data) ==
    IF rest = << >> THEN Parsed("", None, [r EXCEPT !.data = Some(data)])
    ELSE parse_nested_turn(r, rest, start, data,
                           Slice(r.data[1], start, Head(rest) + 4))

\* lengths[0] raises IndexError on an empty list
parse_nested(r, lengths) ==
    IF lengths = << >> THEN Parsed("IndexError", None, r)
    ELSE parse_nested_loop(r, Tail(lengths), lengths[1] + 1,
             <<merge_bytes(Drop(Take(r.data[1], lengths[1] + 1), 1))>>)

\* the outcome of a fast read whose Response went through parse_nested
fast_decoded(o, d) ==
    IF d.exc # "" THEN [o EXCEPT !.exc = d.exc, !.hw_id = d.hw_id, !.val = None]
    ELSE [o EXCEPT !.val = Some(d.r)]

\* if r.ok: r = parse_nested(r, lengths)
fast_read_return(o, lengths) ==
    IF o.exc = "" /\ Response_ok(o.val[1])
    THEN fast_decoded(o, parse_nested(o.val[1], lengths))
    ELSE o

fast_sync_read(ser, dxl_ids, address, length, accepted, reply) ==
    fast_read_return(
        get_response(ser,
            InstructionPacketV2(BROADCAST_ID, FAST_SYNC_READ,
                split_bytes(address, 2) \o split_bytes(length, 2) \o dxl_ids),
            accepted, reply),
        [i \in DOMAIN dxl_ids |-> length])

\* zip(dxl_ids, addresses, lengths): dxl_id, address and length of each
\* device in turn, for lists of one length
RECURSIVE fast_bulk_read_params(_, _, _)
fast_bulk_read_params(dxl_ids, addresses, lengths) ==
    IF dxl_ids = << >> THEN << >>
    ELSE <<Head(dxl_ids)>> \o split_bytes(Head(addresses), 2)
             \o split_bytes(Head(lengths), 2)
             \o fast_bulk_read_params(Tail(dxl_ids), Tail(addresses),
                                      Tail(lengths))

fast_bulk_read(ser, dxl_ids, addresses, lengths, accepted, reply) ==
    fast_read_return(
        get_response(ser,
            InstructionPacketV2(BROADCAST_ID, FAST_BULK_READ,
                fast_bulk_read_params(dxl_ids, addresses, lengths)),
            accepted, reply),
        lengths)

----------------------------------------------------------------------------
(* v2.py: Connection.read_header / read_packet (Protocol 2)                *)

\* the while loop of Connection.read_header (v1.py, v2.py; base.py has it
\* with the header as a parameter): reads len(header) bytes at a time and
\* gives up once timeout * len(header) has elapsed
RECURSIVE read_header_loop(_, _, _, _)
read_header_loop(ser, packet, header, t0) ==
    LET r == ser_read(ser, Len(header) - Len(packet))
        p == packet \o r.data
        s == scan_header(p, Len(p), header)
    IN  IF s.found \/ r.ser.clock - t0 >= Len(header)
        THEN [packet |-> s.packet, ser |-> r.ser]
        ELSE read_header_loop(r.ser, s.packet, header, t0)

v2_read_header(ser) == read_header_loop(ser, << >>, HEADER_V2, ser.clock)

\* StatusPacket.__init__(buffer) of v2.py; buffer[7:9] must hold two bytes
v2_StatusPacket(buffer) ==
    [packet_id   |-> buffer[5],
     length      |-> merge_bytes(Slice(buffer, 5, 2)),
     instruction |-> buffer[8],
     error       |-> buffer[9],
     params      |-> SubSeq(buffer, 10, Len(buffer) - 2),
     crc         |-> merge_bytes(TakeLast(buffer, 2))]

\* val is None or Some(StatusPacket); stuffing is left in the params
v2_read_packet(ser) ==
    LET h == v2_read_header(ser)
    IN  IF Len(h.packet) < 4 THEN Outcome("", None, None, << >>, h.ser)
        ELSE
        LET b == ser_read(h.ser, 3)
        IN  IF Len(b.data) < 3 THEN Outcome("", None, None, << >>, b.ser)
            ELSE
            LET length == merge_bytes(<<b.data[2], b.data[3]>>)
                r      == ser_read(b.ser, length)
                packet == h.packet \o b.data \o r.data
            IN  IF Len(r.data) < length
                    THEN Outcome("", None, None, << >>, r.ser)
                ELSE IF length < 2
                    THEN Outcome("ValueError", None, None, << >>, r.ser)
                ELSE IF hardware_alert(v2_StatusPacket(packet).error)
                    THEN Outcome("HardwareError", Some(b.data[1]), None,
                                 << >>, r.ser)
                ELSE Outcome("", None, Some(v2_StatusPacket(packet)),
                             << >>, r.ser)

----------------------------------------------------------------------------
(* protocol_v1.py: status packets and StatusPacketV1.read_from             *)

HEADER_V1 == <<\hFF, \hFF>>

RECURSIVE Sum(_)
Sum(s) == IF s = << >> THEN 0 ELSE Head(s) + Sum(Tail(s))

\* faulty variant: the two header bytes are summed as well
calc_checksum_headed(packet) == 255 - (Sum(packet) % 256)

\* ~(sum(packet[2:]) & 0xFF) & 0xFF
calc_checksum(packet) == 255 - (Sum(Drop(packet, 2)) % 256)

StatusPacketV1(packet_id, length, error, params, checksum) ==
    [packet_id |-> packet_id, length |-> length, error |-> error,
     params |-> params, checksum |-> checksum]

StatusPacketV1_as_tuple(rx) ==
    HEADER_V1 \o <<rx.packet_id, rx.length, rx.error>> \o rx.params
        \o <<rx.checksum>>

StatusPacketV1_is_valid(rx) ==
    calc_checksum(DropLast(StatusPacketV1_as_tuple(rx), 1)) = rx.checksum

\* the while loop of read_from: reads up to four bytes at a time and looks
\* for FF FF at the front of what it holds
RECURSIVE read_from_loop(_, _, _)
read_from_loop(ser, packet, t0) ==
    LET r == ser_read(ser, 4 - Len(packet))
        p == packet \o r.data
        s == scan_header(p, Len(p), HEADER_V1)
    IN  IF s.found \/ r.ser.clock - t0 >= 1
        THEN [found |-> s.found, packet |-> s.packet, ser |-> r.ser]
        ELSE read_from_loop(r.ser, s.packet, t0)

\* read_from, from the header it has found at the front of found
read_from_found(found, ser) ==
    LET b  == IF Len(found) < 4
              THEN ser_read(ser, 4 - Len(found))
              ELSE [data |-> << >>, ser |-> ser]
        p4 == found \o b.data
    IN  IF Len(p4) < 4 THEN Outcome("", None, None, << >>, b.ser)
        ELSE
        LET length == p4[4]
            r      == ser_read(b.ser, length)
            packet == p4 \o r.data
        IN  IF Len(r.data) < length
                THEN Outcome("", None, None, << >>, r.ser)
            ELSE IF Len(packet) < 5      \* packet[4] on four bytes
                THEN Outcome("IndexError", None, None, << >>, r.ser)
            ELSE Outcome("", None,
                     Some(StatusPacketV1(p4[3], length, packet[5],
                              SubSeq(packet, 6, Len(packet) - 1),
                              packet[Len(packet)])),
                     << >>, r.ser)

\* val is None or Some(StatusPacketV1)
StatusPacketV1_read_from(ser) ==
    LET h == read_from_loop(ser, << >>, ser.clock)
    IN  IF ~h.found THEN Outcome("", None, None, << >>, h.ser)
        ELSE read_from_found(h.packet, h.ser)

----------------------------------------------------------------------------
(* protocol_v1.py: InstructionPacketV1, Status and DynamixelSerialV1       *)

V1_SYNC_WRITE == \h83
V1_BULK_READ == \h92

\* faulty variant: the first byte is the least significant one
v1_merge_bytes_little(array) == merge_bytes(array)

\* int.from_bytes(array, byteorder="big")
RECURSIVE v1_merge_bytes(_)
v1_merge_bytes(array) ==
    IF array = << >> THEN 0
    ELSE 256 * v1_merge_bytes(DropLast(array, 1)) + array[Len(array)]

\* __post_init__: length and checksum are computed from the other fields
InstructionPacketV1(packet_id, instruction, params) ==
    [packet_id |-> packet_id, instruction |-> instruction, params |-> params,
     length |-> Len(params) + 2,
     checksum |-> calc_checksum(HEADER_V1
                      \o <<packet_id, Len(params) + 2, instruction>> \o params)]

InstructionPacketV1_as_tuple(tx) ==
    HEADER_V1 \o <<tx.packet_id, tx.length, tx.instruction>> \o tx.params
        \o <<tx.checksum>>

\* faulty variant: the count ser.write returns is not looked at
write_to_unchecked(ser, tx, accepted) ==
    Outcome("", None, Some(TRUE), <<InstructionPacketV1_as_tuple(tx)>>,
            ser_write(ser))

\* val is Some(ok); accepted is the count ser.write returns for the buffer
write_to(ser, tx, accepted) ==
    LET to_write == InstructionPacketV1_as_tuple(tx)
    IN  Outcome("", None, Some(Min(accepted, Len(to_write)) = Len(to_write)),
                <<to_write>>, ser_write(ser))

\* Status(rx).is_ok()
Status_is_ok(rx) == StatusPacketV1_is_valid(rx) /\ rx.error = 0

\* ping, _write and _send after write_to said ok, from the outcome o of
\* read_from: False when nothing came, else status.is_ok()
SerialV1_status(written, o) ==
    IF o.exc # "" THEN [o EXCEPT !.wrote = written]
    ELSE Outcome("", None, Some(o.val # None /\ Status_is_ok(o.val[1])),
                 written, o.ser)

\* write tx, and if that went well read one status and say whether it is ok;
\* reply is what the bus delivers once the instruction has been written
SerialV1_exchange(w, ser, reply) ==
    IF ~w.val[1] THEN w
    ELSE SerialV1_status(w.wrote,
             StatusPacketV1_read_from([w.ser EXCEPT !.buf = w.ser.buf \o reply]))

SerialV1_ping(ser, dxl_id, accepted, reply) ==
    SerialV1_exchange(write_to(ser, InstructionPacketV1(dxl_id, PING, << >>),
                               accepted),
                      ser, reply)

\* read after write_to said ok, from the outcome o of read_from
SerialV1_read_return(written, o) ==
    IF o.exc # "" THEN [o EXCEPT !.wrote = written]
    ELSE IF o.val = None \/ ~Status_is_ok(o.val[1])
        THEN Outcome("", None, None, written, o.ser)
    ELSE Outcome("", None, Some(v1_merge_bytes(o.val[1].params)), written, o.ser)

\* read, from the outcome w of write_to
SerialV1_read_written(w, ser, reply) ==
    IF ~w.val[1] THEN [w EXCEPT !.val = None]
    ELSE SerialV1_read_return(w.wrote,
             StatusPacketV1_read_from([w.ser EXCEPT !.buf = w.ser.buf \o reply]))

SerialV1_read(ser, dxl_id, address, length, accepted, reply) ==
    SerialV1_read_written(
        write_to(ser, InstructionPacketV1(dxl_id, READ, <<address, length>>),
                 accepted),
        ser, reply)

SerialV1__write(ser, dxl_id, instruction, address, length, value, accepted, reply) ==
    SerialV1_exchange(
        write_to(ser,
                 InstructionPacketV1(dxl_id, instruction,
                     <<address>> \o split_bytes(value, length)),
                 accepted),
        ser, reply)

SerialV1__send(ser, dxl_id, instruction, params, accepted, reply) ==
    SerialV1_exchange(
        write_to(ser, InstructionPacketV1(dxl_id, instruction, params), accepted),
        ser, reply)

\* the write only: nothing is read
SerialV1_action(ser, accepted) ==
    write_to(ser, InstructionPacketV1(BROADCAST_ID, ACTION_INSTRUCTION, << >>),
             accepted)

\* faulty variant: the id is not looked at
SerialV1_factory_reset_any(ser, dxl_id, accepted, reply) ==
    SerialV1__send(ser, dxl_id, FACTORY_RESET, << >>, accepted, reply)

\* assert dxl_id < 0xFE
SerialV1_factory_reset(ser, dxl_id, accepted, reply) ==
    IF ~(dxl_id < \hFE) THEN Outcome("AssertionError", None, None, << >>, ser)
    ELSE SerialV1__send(ser, dxl_id, FACTORY_RESET, << >>, accepted, reply)

SerialV1_reboot(ser, dxl_id, accepted, reply) ==
    SerialV1__send(ser, dxl_id, REBOOT, << >>, accepted, reply)

\* the write only: nothing is read
SerialV1_sync_write(ser, dxl_ids, address, length, values, accepted) ==
    write_to(ser,
             InstructionPacketV1(BROADCAST_ID, V1_SYNC_WRITE,
                 <<address, length>> \o sync_write_params(dxl_ids, length, values)),
             accepted)

\* for dxl_id, address, length in zip(...): length, id, address
RECURSIVE SerialV1_bulk_read_params(_, _, _)
SerialV1_bulk_read_params(dxl_ids, addresses, lengths) ==
    IF dxl_ids = << >> \/ addresses = << >> \/ lengths = << >> THEN << >>
    ELSE <<Head(lengths), Head(dxl_ids), Head(addresses)>>
             \o SerialV1_bulk_read_params(Tail(dxl_ids), Tail(addresses),
                                          Tail(lengths))

RECURSIVE SerialV1_bulk_read_loop(_, _, _)

\* a turn of `for _ in dxl_ids`, from the outcome o of read_from
SerialV1_bulk_read_turn(o, n, data) ==
    IF o.exc # "" THEN o
    ELSE IF o.val = None \/ ~Status_is_ok(o.val[1])
        THEN Outcome("", None, None, << >>, o.ser)
    ELSE SerialV1_bulk_read_loop(o.ser, n - 1,
             Append(data, v1_merge_bytes(o.val[1].params)))

\* bulk_read after write_to said ok: n turns are left
SerialV1_bulk_read_loop(ser, n, data) ==
    IF n = 0 THEN Outcome("", None, Some(data), << >>, ser)
    ELSE SerialV1_bulk_read_turn(StatusPacketV1_read_from(ser), n, data)

\* bulk_read, from the outcome w of write_to and the outcome o of the loop
SerialV1_bulk_read_written(w, o) ==
    IF ~w.val[1] THEN [w EXCEPT !.val = None] ELSE [o EXCEPT !.wrote = w.wrote]

SerialV1_bulk_read(ser, dxl_ids, addresses, lengths, accepted, reply) ==
    SerialV1_bulk_read_written(
        write_to(ser,
                 InstructionPacketV1(BROADCAST_ID, V1_BULK_READ,
                     <<\h00>> \o SerialV1_bulk_read_params(dxl_ids, addresses,
                                                          lengths)),
                 accepted),
        SerialV1_bulk_read_loop(
            [write_to(ser,
                      InstructionPacketV1(BROADCAST_ID, V1_BULK_READ,
                          <<\h00>> \o SerialV1_bulk_read_params(dxl_ids,
                                                               addresses,
                                                               lengths)),
                      accepted).ser
             EXCEPT !.buf = ser.buf \o reply],
            Len(dxl_ids), << >>))

----------------------------------------------------------------------------
(* v1.py: Connection.read_header / read_packet (Protocol 1)                *)

v1_read_header(ser) == read_header_loop(ser, << >>, HEADER_V1, ser.clock)

\* StatusPacket.__init__(buffer) of v1.py
v1_StatusPacket(buffer) ==
    [packet_id |-> buffer[3], length |-> buffer[4], error |-> buffer[5],
     params |-> SubSeq(buffer, 6, Len(buffer) - 1),
     checksum |-> buffer[Len(buffer)]]

\* val is None or Some(StatusPacket)
v1_read_packet(ser) ==
    LET h == v1_read_header(ser)
    IN  IF Len(h.packet) < 2 THEN Outcome("", None, None, << >>, h.ser)
        ELSE
        LET b == ser_read(h.ser, 2)
        IN  IF Len(b.data) < 2 THEN Outcome("", None, None, << >>, b.ser)
            ELSE
            LET length == b.data[2]
                r      == ser_read(b.ser, length)
                packet == h.packet \o b.data \o r.data
            IN  IF Len(r.data) < length
                    THEN Outcome("", None, None, << >>, r.ser)
                ELSE IF Len(packet) < 5      \* buffer[4] on four bytes
                    THEN Outcome("IndexError", None, None, << >>, r.ser)
                ELSE Outcome("", None, Some(v1_StatusPacket(packet)),
                             << >>, r.ser)

----------------------------------------------------------------------------
(* v1.py, v2.py, base.py: write_packet and the MotorBus operations that    *)
(* write to several devices or reset one                                   *)

\* what serial.write(buffer) returns: counts lists what the port takes on
\* the successive calls; once it is used up the port takes all it is given
write_count(counts, buffer) ==
    IF counts = << >> THEN Len(buffer) ELSE Min(Head(counts), Len(buffer))

\* Connection.write_packet of v1.py and BaseConnection.write_packet of
\* base.py, from `count = 0` on: while count < len(buffer):
\* count = write(buffer); buffer = buffer[count:].
\* written lists the buffers handed to serial.write so far.
RECURSIVE write_packet_loop(_, _, _, _)
write_packet_loop(buffer, count, counts, written) ==
    IF ~(count < Len(buffer)) THEN written
    ELSE write_packet_loop(Drop(buffer, write_count(counts, buffer)),
             write_count(counts, buffer),
             IF counts = << >> THEN counts ELSE Tail(counts),
             Append(written, buffer))

\* Connection.write_packet of v2.py, from `count = 0` on: while
\* count < len(buffer): count = self.serial.write(buffer)
RECURSIVE v2_write_packet_loop(_, _, _, _)
v2_write_packet_loop(buffer, count, counts, written) ==
    IF ~(count < Len(buffer)) THEN written
    ELSE v2_write_packet_loop(buffer, write_count(counts, buffer),
             IF counts = << >> THEN counts ELSE Tail(counts),
             Append(written, buffer))

\* InstructionPacket.raw of v1.py: the checksum is taken over the packet
\* with a two-byte length and is emitted with split_bytes, as two bytes
v1_InstructionPacket_raw(packet_id, instruction, params) ==
    HEADER_V1 \o <<packet_id, Len(params) + 2, instruction>> \o params
        \o split_bytes(calc_checksum(HEADER_V1 \o <<packet_id>>
                           \o split_bytes(Len(params) + 2, 2)
                           \o <<instruction>> \o params), 2)

\* InstructionPacket.raw of v2.py: the crc is taken over the stuffed params,
\* the length and the params emitted are those of the unstuffed ones
v2_InstructionPacket_raw(packet_id, instruction, params) ==
    HEADER_V2 \o <<packet_id>> \o split_bytes(Len(params) + 3, 2)
        \o <<instruction>> \o params
        \o split_bytes(calc_crc_16(HEADER_V2 \o <<packet_id>>
                           \o split_bytes(Len(params) + 3, 2)
                           \o <<instruction>>
                           \o insert_reversed(params, stuffing_indices(params))),
                       2)

\* what a v1.py MotorBus operation returns after write_packet, from the
\* outcome o of read_packet: Response(timeout=True) when nothing came; with
\* a packet it calls Response(error=..., valid=...), and Response has no
\* field `valid`
v1_MotorBus_response(written, o) ==
    IF o.exc # "" THEN [o EXCEPT !.wrote = written]
    ELSE IF o.val = None
        THEN Outcome("", None, Some(Response(Some(TRUE), None, None, None, None)),
                     written, o.ser)
    ELSE Outcome("TypeError", None, None, written, o.ser)

v1_MotorBus__send(ser, dxl_id, instruction, buffer, counts, reply) ==
    v1_MotorBus_response(
        write_packet_loop(v1_InstructionPacket_raw(dxl_id, instruction, buffer),
                          0, counts, << >>),
        v1_read_packet(
            [ser_wrote(ser,
                 write_packet_loop(
                     v1_InstructionPacket_raw(dxl_id, instruction, buffer),
                     0, counts, << >>))
             EXCEPT !.buf = ser.buf \o reply]))

\* MotorBus.read of v1.py: InstructionPacket(dxl_id, READ,
\* Params([address, length])), write_packet, then read_packet
v1_MotorBus_read(ser, dxl_id, address, length, counts, reply) ==
    v1_MotorBus__send(ser, dxl_id, READ, <<address, length>>, counts, reply)

\* assert dxl_id != BROADCAST_ID
v1_MotorBus_factory_reset(ser, dxl_id, counts, reply) ==
    IF ~(dxl_id # BROADCAST_ID)
    THEN Outcome("AssertionError", None, None, << >>, ser)
    ELSE v1_MotorBus__send(ser, dxl_id, FACTORY_RESET, << >>, counts, reply)

\* sync_write(params) for SyncParams(address, length) with one add_value
\* per pair of dxl_ids and values: write_packet, then read_packet
v1_MotorBus_sync_write(ser, dxl_ids, address, length, values, counts, reply) ==
    IF ~(Min(Len(dxl_ids), Len(values)) > 0)
    THEN Outcome("AssertionError", None, None, << >>, ser)
    ELSE v1_MotorBus_response(
             write_packet_loop(
                 v1_InstructionPacket_raw(BROADCAST_ID, V1_SYNC_WRITE,
                     split_bytes(address, 1) \o split_bytes(length, 1)
                         \o sync_write_params(dxl_ids, length, values)),
                 0, counts, << >>),
             v1_read_packet(
                 [ser_wrote(ser,
                      write_packet_loop(
                          v1_InstructionPacket_raw(BROADCAST_ID, V1_SYNC_WRITE,
                              split_bytes(address, 1) \o split_bytes(length, 1)
                                  \o sync_write_params(dxl_ids, length, values)),
                          0, counts, << >>))
                  EXCEPT !.buf = ser.buf \o reply]))

\* sync_write(params) of v2.py for SyncParams(address, length) with one
\* add_value per pair: write_packet only
v2_MotorBus_sync_write(ser, dxl_ids, address, length, values, counts) ==
    IF ~(Min(Len(dxl_ids), Len(values)) > 0)
    THEN Outcome("AssertionError", None, None, << >>, ser)
    ELSE Outcome("", None, None,
             v2_write_packet_loop(
                 v2_InstructionPacket_raw(BROADCAST_ID, SYNC_WRITE,
                     split_bytes(address, 2) \o split_bytes(length, 2)
                         \o sync_write_params(dxl_ids, length, values)),
                 0, counts, << >>),
             ser_wrote(ser,
                 v2_write_packet_loop(
                     v2_InstructionPacket_raw(BROADCAST_ID, SYNC_WRITE,
                         split_bytes(address, 2) \o split_bytes(length, 2)
                             \o sync_write_params(dxl_ids, length, values)),
                     0, counts, << >>)))

\* bulk_write(params) of v2.py for BulkParams() with one add_value per
\* device: write_packet only
v2_MotorBus_bulk_write(ser, dxl_ids, addresses, lengths, values, counts) ==
    IF bulk_write_params(dxl_ids, addresses, lengths, values) = << >>
    THEN Outcome("AssertionError", None, None, << >>, ser)
    ELSE Outcome("", None, None,
             v2_write_packet_loop(
                 v2_InstructionPacket_raw(BROADCAST_ID, BULK_WRITE,
                     bulk_write_params(dxl_ids, addresses, lengths, values)),
                 0, counts, << >>),
             ser_wrote(ser,
                 v2_write_packet_loop(
                     v2_InstructionPacket_raw(BROADCAST_ID, BULK_WRITE,
                         bulk_write_params(dxl_ids, addresses, lengths, values)),
                     0, counts, << >>)))

----------------------------------------------------------------------------
(* The bus: what the devices deliver while a call waits for its answer.    *)

MaxParams == 5
MaxGarbage == 5

Ids == {1, 2}
Errors == {\h00, \h01, \h12, \h7F, \h80, \h82}
GarbageBytes == {\h00, \hFF}
StuffBytes == {\hFF, \hFD}

\* all sequences over S of length lo..hi
SeqsOf(S, lo, hi) == UNION { [1 .. n -> S] : n \in lo .. hi }

\* a well-formed status frame, as a device sends it
build_rx(packet_id, error, params) ==
    LET packet == HEADER_V2 \o <<packet_id>> \o split_bytes(Len(params) + 4, 2)
                    \o <<\h55, error>> \o params
    IN  packet \o split_bytes(calc_crc_16(packet), 2)

\* One delivery: garbage, then a status frame of which at most one byte was
\* changed on the way (flip = Some(<<position, value>>)), then a tail.
ReplyOf(frame, prefix, packet_id, error, params, flip, tail) ==
    LET wire == IF flip = None THEN frame
                ELSE [frame EXCEPT ![flip[1][1]] = flip[1][2]]
    IN  [answered |-> TRUE, prefix |-> prefix, packet_id |-> packet_id,
         error |-> error, params |-> params, flip |-> flip, tail |-> tail,
         frame |-> frame, stream |-> prefix \o wire \o tail]

Reply(prefix, packet_id, error, params, flip, tail) ==
    ReplyOf(build_rx(packet_id, error, params),
            prefix, packet_id, error, params, flip, tail)

Silent ==
    [answered |-> FALSE, prefix |-> << >>, packet_id |-> 0, error |-> 0,
     params |-> << >>, flip |-> None, tail |-> << >>, frame |-> << >>,
     stream |-> << >>]

BaseParams == { << >>, <<\h01>>, <<\h06, \h04, \h26>>, <<\hA6, \h01, \h01, \h01>> }

PlainReplies ==
    { Reply(<< >>, i, e, p, None, << >>) : i \in Ids, e \in Errors, p \in BaseParams }

PrefixedReplies ==
    { Reply(g, 1, e, <<\h06, \h04, \h26>>, None, << >>) :
        g \in SeqsOf(GarbageBytes, 1, MaxGarbage), e \in {\h00, \h82} }

\* the low CRC byte arrives changed
BrokenReplies ==
    { Reply(<< >>, i, e, <<\h06, \h04, \h26>>, Some(<<13, v>>), << >>) :
        i \in Ids, e \in {\h00, \h01}, v \in {\h00, \hFF} }

Tails == { <<\h00>>, build_rx(2, \h00, <<\h01>>) }

TailedReplies ==
    { Reply(<< >>, 1, e, <<\h06, \h04, \h26>>, None, t) :
        e \in {\h00, \h82}, t \in Tails }

FewReplies ==
    { Silent, Reply(<< >>, 1, \h00, <<\h06, \h04, \h26>>, None, << >>) }

StuffedReplies ==
    { Reply(<< >>, 1, e, p, None, << >>) :
        e \in {\h00, \h12}, p \in SeqsOf(StuffBytes, 0, MaxParams) }

FlipBase == build_rx(1, \h00, <<\h01>>)

FlippedReplies ==
    { Reply(<< >>, 1, \h00, <<\h01>>, Some(<<k, v>>), << >>) :
        k \in 5 .. Len(FlipBase), v \in 0 .. 255 } \ 
    { Reply(<< >>, 1, \h00, <<\h01>>, Some(<<k, FlipBase[k]>>), << >>) :
        k \in 5 .. Len(FlipBase) }

\* one delivery of each kind: silence, a good status, one after a garbage
\* byte, one with an alert, one with a changed CRC byte, one with a tail
DuplexReplies ==
    { Silent,
      Reply(<< >>, 1, \h00, <<\h06, \h04, \h26>>, None, << >>),
      Reply(<<\hFF>>, 1, \h00, <<\h06, \h04, \h26>>, None, << >>),
      Reply(<< >>, 1, \h82, <<\h06, \h04, \h26>>, None, << >>),
      Reply(<< >>, 1, \h00, <<\h06, \h04, \h26>>, Some(<<13, \hFF>>), << >>),
      Reply(<< >>, 1, \h00, <<\h06, \h04, \h26>>, None, <<\h00>>) }

\* the delivery r of which only the first k bytes arrive
CutReply(r, k) == [r EXCEPT !.stream = Take(r.stream, k)]

\* status frames that stop short, at any byte, and frames whose length
\* field arrives raised (the low byte by one or to FF, the high byte to 01)
ShortReplies ==
    { CutReply(Reply(<< >>, 1, e, p, None, << >>), k) :
        e \in {\h00, \h82}, p \in { << >>, <<\h06, \h04, \h26>> },
        k \in 0 .. 14 }
    \cup UNION { { Reply(<< >>, 1, \h00, p, Some(f), << >>) :
                      f \in { <<6, Len(p) + 5>>, <<6, \hFF>>, <<7, \h01>> } } :
                    p \in { << >>, <<\h06, \h04, \h26>> } }

\* the deliveries a call may meet
Replies ==
    IF rxbuf # << >> THEN FewReplies
    ELSE IF env = "short" THEN ShortReplies
    ELSE IF env = "duplex" THEN DuplexReplies
    ELSE IF env = "stuffed" THEN StuffedReplies
    ELSE IF env = "flipped" THEN FlippedReplies
    ELSE PlainReplies \cup PrefixedReplies \cup BrokenReplies
             \cup TailedReplies \cup {Silent}

\* a well-formed Protocol 1 status frame, as a device sends it
build_rx_v1(packet_id, error, params) ==
    LET packet == HEADER_V1 \o <<packet_id, Len(params) + 2, error>> \o params
    IN  packet \o <<calc_checksum(packet)>>

V1GarbageBytes == {\h00, \h01}

\* Protocol 1 status frames that stop short, at any byte, and frames whose
\* length field arrives raised (by one or to FF)
V1ShortReplies ==
    { CutReply(ReplyOf(build_rx_v1(1, e, p), << >>, 1, e, p, None, << >>), k) :
        e \in {\h00, \h01}, p \in { << >>, <<\h01, \h02>> }, k \in 0 .. 8 }
    \cup UNION { { ReplyOf(build_rx_v1(1, \h00, p), << >>, 1, \h00, p,
                              Some(f), << >>) :
                      f \in { <<4, Len(p) + 3>>, <<4, \hFF>> } } :
                    p \in { << >>, <<\h01, \h02>> } }

V1Replies ==
    IF rxbuf # << >> THEN {Silent}
    ELSE IF env = "short" THEN V1ShortReplies
    ELSE { ReplyOf(build_rx_v1(i, e, p), g, i, e, p, None, << >>) :
             g \in SeqsOf(V1GarbageBytes, 0, MaxGarbage), i \in Ids,
             e \in {\h00, \h01}, p \in { << >>, <<\h20, \h01, \h02, \h03>> } }
         \cup {Silent}

\* the ids a call may address
Targets == IF env = "std" THEN Ids ELSE {1}

\* the params of the instruction packets handed to transmit
TxParams ==
    IF env = "stuffed" THEN SeqsOf(StuffBytes \cup {\h00}, 0, MaxParams)
    ELSE { << >>, <<\h01>>, <<\hFF, \hFF, \hFD>> }

\* the counts ser.write may return: one byte, or at least the whole buffer
ShortWrites == {1}
FullWrites == {4096}
Accepts == ShortWrites \cup FullWrites
WriteAll == CHOOSE n \in FullWrites : TRUE

\* the replies whose params merge into an integer TLC can hold
\* (Python integers are unbounded; the model's are 32-bit)
Mergeable(replies) ==
    { r \in replies : Len(r.params) < 4 \/ (Len(r.params) = 4 /\ r.params[4] < 128) }

\* the most devices one gather addresses or hears
MaxDevices == 3

\* the id lists handed to a gather: devices 1 .. n in order and, where the
\* order of the replies is looked at, in reverse order as well (the devices
\* answer in the order 1 .. n either way)
GatherIds ==
    { [i \in 1 .. n |-> i] : n \in 0 .. MaxDevices }
    \cup (IF env = "order"
          THEN { [i \in 1 .. n |-> n + 1 - i] : n \in 2 .. MaxDevices }
          ELSE {})

\* What a device may send when its turn comes: a status frame with or
\* without an error, an alert, or a frame whose low CRC byte was changed on
\* the way (broken), from the device at this position.
AnswerKinds ==
    { [error |-> e, params |-> p, broken |-> b] :
        e \in {\h00}, p \in { <<\h06, \h04, \h26>>, <<\h05, \h04, \h25>> },
        b \in {FALSE} }
    \cup { [error |-> e, params |-> <<\h06, \h04, \h26>>, broken |-> b] :
             e \in {\h01, \h82}, b \in {FALSE} }
    \cup { [error |-> e, params |-> <<\h06, \h04, \h26>>, broken |-> b] :
             e \in {\h00, \h82}, b \in {TRUE} }

\* one answer of each kind: good, with a device error, with an alert, broken
BoundedAnswerKinds ==
    { [error |-> \h00, params |-> <<\h06, \h04, \h26>>, broken |-> FALSE],
      [error |-> \h01, params |-> <<\h06, \h04, \h26>>, broken |-> FALSE],
      [error |-> \h82, params |-> <<\h06, \h04, \h26>>, broken |-> FALSE],
      [error |-> \h00, params |-> <<\h06, \h04, \h26>>, broken |-> TRUE] }

\* one answer of each kind: good, with an alert, broken
DuplexAnswerKinds ==
    { [error |-> \h00, params |-> <<\h06, \h04, \h26>>, broken |-> FALSE],
      [error |-> \h82, params |-> <<\h06, \h04, \h26>>, broken |-> FALSE],
      [error |-> \h00, params |-> <<\h06, \h04, \h26>>, broken |-> TRUE] }

\* the frame of the answer a at position i
answer_frame(a, i) ==
    LET frame == build_rx(i, a.error, a.params)
    IN  IF a.broken
        THEN [frame EXCEPT ![Len(frame) - 1] = 255 - frame[Len(frame) - 1]]
        ELSE frame

\* the frames of the answers from position i on, back to back
RECURSIVE answer_stream(_, _)
answer_stream(answers, i) ==
    IF i > Len(answers) THEN << >>
    ELSE answer_frame(answers[i], i) \o answer_stream(answers, i + 1)

\* one delivery to a gather: the devices 1 .. Len(answers) answer in turn,
\* then the bus is silent
Gather(answers) == [answers |-> answers, stream |-> answer_stream(answers, 1)]

\* the deliveries a gather over n devices may meet
Gathers(accepted, n) ==
    IF accepted \in ShortWrites THEN { Gather(<< >>) }
    ELSE IF rxbuf # << >>
        THEN { Gather(<< >>) } \cup
             { Gather(<<[error |-> \h00, params |-> <<\h06, \h04, \h26>>,
                         broken |-> FALSE]>>) : k \in 1 .. Min(n, 1) }
    ELSE IF env = "duplex"
        THEN { Gather(a) : a \in SeqsOf(DuplexAnswerKinds, 0, n) }
    ELSE IF env = "bounded"
        THEN { Gather(a) : a \in SeqsOf(BoundedAnswerKinds, 0, n) } \cup
             { Gather(Append(a, [error |-> \h00,
                                 params |-> <<\h06, \h04, \h26>>,
                                 broken |-> FALSE])) :
                 a \in SeqsOf(BoundedAnswerKinds, n, n) }
    ELSE { Gather(a) : a \in SeqsOf(AnswerKinds, 0, n) }

\* the params of the Protocol 1 status frames: none, or a value of 1, 2
\* or 4 bytes (TLC's integers are 32-bit, so the first byte stays below 80)
V1Params == { << >>, <<\h05>>, <<\h01, \h02>>, <<\h20, \h01, \h02, \h03>> }

\* the deliveries a Protocol 1 operation may meet: silence, or a status
\* frame, alone or after a garbage byte, whose checksum may have been
\* changed on the way
V1FlipBase == build_rx_v1(1, \h00, <<\h01, \h02>>)

\* a Protocol 1 status frame of which one byte after the header arrives
\* changed to any other value
V1FlippedReplies ==
    { ReplyOf(V1FlipBase, << >>, 1, \h00, <<\h01, \h02>>, Some(<<k, v>>), << >>) :
        k \in 3 .. Len(V1FlipBase), v \in 0 .. 255 } \ 
    { ReplyOf(V1FlipBase, << >>, 1, \h00, <<\h01, \h02>>,
              Some(<<k, V1FlipBase[k]>>), << >>) : k \in 3 .. Len(V1FlipBase) }

SerialV1Replies ==
    IF rxbuf # << >> THEN {Silent}
    ELSE IF env = "short" THEN V1ShortReplies
    ELSE IF env = "flipped" THEN V1FlippedReplies \cup {Silent}
    ELSE { ReplyOf(build_rx_v1(i, e, p), g, i, e, p, None, << >>) :
             g \in SeqsOf(V1GarbageBytes, 0, 1), i \in Ids,
             e \in {\h00, \h01}, p \in V1Params }
         \cup { ReplyOf(build_rx_v1(1, \h00, p), << >>, 1, \h00, p,
                        Some(<<Len(p) + 6, 255 - build_rx_v1(1, \h00, p)[Len(p) + 6]>>),
                        << >>) : p \in V1Params }
         \cup {Silent}

\* what a device may send in a Protocol 1 gather when its turn comes
V1AnswerKinds ==
    { [error |-> \h00, params |-> p, broken |-> FALSE] : p \in V1Params \ {<< >>} }
    \cup { [error |-> \h01, params |-> <<\h01, \h02>>, broken |-> FALSE],
           [error |-> \h00, params |-> <<\h01, \h02>>, broken |-> TRUE] }

\* the ids factory_reset is called with: every byte on a port with an empty
\* buffer, else a device and the broadcast id
ResetTargets == IF rxbuf = << >> THEN 0 .. 255 ELSE {1, BROADCAST_ID}

\* device 1 answers as any Protocol 1 device may, the others stay silent
ResetReplies(dxl_id) == IF dxl_id = 1 THEN SerialV1Replies ELSE {Silent}

\* the Protocol 1 frame of the answer a at position i
v1_answer_frame(a, i) ==
    LET frame == build_rx_v1(i, a.error, a.params)
    IN  IF a.broken
        THEN [frame EXCEPT ![Len(frame)] = 255 - frame[Len(frame)]]
        ELSE frame

\* the Protocol 1 frames of the answers from position i on, back to back
RECURSIVE v1_answer_stream(_, _)
v1_answer_stream(answers, i) ==
    IF i > Len(answers) THEN << >>
    ELSE v1_answer_frame(answers[i], i) \o v1_answer_stream(answers, i + 1)

\* the deliveries a Protocol 1 bulk_read over n devices may meet
V1Gathers(accepted, n) ==
    IF accepted \in ShortWrites \/ rxbuf # << >>
    THEN { [answers |-> << >>, stream |-> << >>] }
    ELSE { [answers |-> a, stream |-> v1_answer_stream(a, 1)] :
             a \in SeqsOf(V1AnswerKinds, 0, n) \cup
                   (IF env = "bounded"
                    THEN { Append(b, [error |-> \h00,
                                      params |-> <<\h01, \h02>>,
                                      broken |-> FALSE]) :
                             b \in SeqsOf(V1AnswerKinds, n, n) }
                    ELSE { }) }

\* the most partial writes the port makes before it takes all it is given
MaxWrites == 3

\* what serial.write returns on its successive calls: the port takes
\* 1, 3 or 5 bytes of what it is given (all of it when that is less)
WriteCounts == SeqsOf({1, 3, 5}, 0, MaxWrites)

----------------------------------------------------------------------------
(* The driver as a state machine: one action per call.                     *)

NoCall == [op |-> "", packet_id |-> 0, args |-> << >>]
NoRes == [exc |-> "", hw_id |-> None, val |-> None]
NoSent == [before |-> << >>, accepted |-> 0, reply |-> Silent]

\* no receive is in progress
NoRun == [stage |-> "none", packet |-> << >>, elapsed |-> 0]

\* no parameter object has been made
NoBuilder ==
    [class |-> "", params |-> << >>, length |-> 0, signed |-> FALSE,
     num_motors |-> 0, type |-> None, lengths |-> << >>, signs |-> << >>,
     accepted |-> << >>, calls |-> 0]

InitEnv(e) ==
    /\ run = NoRun
    /\ builder = NoBuilder
    /\ rxbuf = << >>
    /\ wrote = << >>
    /\ nreads = 0
    /\ wrote_at = << >>
    /\ call = NoCall
    /\ sent = NoSent
    /\ res = NoRes
    /\ pc = "idle"
    /\ alerted = FALSE
    /\ env = e

Init == InitEnv("std")
InitStuffed == InitEnv("stuffed")
InitFlipped == InitEnv("flipped")
InitV1 == InitEnv("v1")

\* the state a call leaves when it ends with outcome o
Finish(op, packet_id, args, accepted, reply, o) ==
    /\ pc' = "done"
    /\ call' = [op |-> op, packet_id |-> packet_id, args |-> args]
    /\ sent' = [before |-> rxbuf, accepted |-> accepted, reply |-> reply]
    /\ res' = [exc |-> o.exc, hw_id |-> o.hw_id, val |-> o.val]
    /\ wrote' = o.wrote
    /\ nreads' = o.ser.reads
    /\ wrote_at' = o.ser.writes
    /\ rxbuf' = o.ser.buf
    /\ UNCHANGED <<alerted, env, run, builder>>

\* what comes back for a write: nothing when it was short, else one of the
\* replies of the bus
Exchange(accepted, replies) ==
    IF accepted \in ShortWrites THEN {Silent} ELSE replies

\* the caller takes the result and is ready for the next call
NextCall ==
    /\ pc = "done"
    /\ pc' = "idle"
    /\ alerted' = (res.exc = "HardwareError")
    /\ call' = NoCall
    /\ sent' = NoSent
    /\ res' = NoRes
    /\ wrote' = << >>
    /\ nreads' = 0
    /\ wrote_at' = << >>
    /\ UNCHANGED <<rxbuf, env, run, builder>>

\* transmit(ser, tx) on its own, as the write-only operations use it
Transmit ==
    /\ pc = "idle"
    /\ \E packet_id \in Targets \cup {BROADCAST_ID},
          instruction \in {WRITE, SYNC_WRITE},
          params \in TxParams, accepted \in Accepts :
         Finish("transmit", packet_id, <<instruction, params>>, accepted, Silent,
                transmit(Port(rxbuf),
                         InstructionPacketV2(packet_id, instruction, params),
                         accepted))

\* receive(ser) on its own, on what the bus has delivered
Receive ==
    /\ pc = "idle"
    /\ \E reply \in Replies :
         Finish("receive", 0, << >>, 0, reply,
                receive(Port(rxbuf \o reply.stream)))

\* Connection.read_packet of v2.py on its own
ConnectionReadPacket ==
    /\ pc = "idle"
    /\ \E reply \in Replies :
         Finish("read_packet", 0, << >>, 0, reply,
                v2_read_packet(Port(rxbuf \o reply.stream)))

\* StatusPacketV1.read_from of protocol_v1.py on its own
ReadFrom ==
    /\ pc = "idle"
    /\ \E reply \in V1Replies :
         Finish("read_from", 0, << >>, 0, reply,
                StatusPacketV1_read_from(Port(rxbuf \o reply.stream)))

\* Connection.read_packet of v1.py on its own
ConnectionReadPacketV1 ==
    /\ pc = "idle"
    /\ \E reply \in V1Replies :
         Finish("read_packet", 0, << >>, 0, reply,
                v1_read_packet(Port(rxbuf \o reply.stream)))

\* a write-then-read exchange with a device that answers with the params it
\* was sent, byte for byte as they were on the wire
Echo ==
    /\ pc = "idle"
    /\ rxbuf = << >>
    /\ \E dxl_id \in Targets, params \in TxParams :
         LET tx     == InstructionPacketV2(dxl_id, READ, params)
             buffer == InstructionPacketV2_packet(add_stuffing(tx))
             reply  == Reply(<< >>, dxl_id, \h00,
                             SubSeq(buffer, 9, Len(buffer) - 2), None, << >>)
         IN  Finish("echo", dxl_id, <<READ, params>>, WriteAll, reply,
                    _send(Port(rxbuf), dxl_id, READ, params, WriteAll,
                          reply.stream))

Ping ==
    /\ pc = "idle"
    /\ \E dxl_id \in Targets, accepted \in Accepts :
         \E reply \in Exchange(accepted, Replies) :
             Finish("ping", dxl_id, << >>, accepted, reply,
                    ping(Port(rxbuf), dxl_id, accepted, reply.stream))

Read ==
    /\ pc = "idle"
    /\ \E dxl_id \in Targets, accepted \in Accepts :
         \E reply \in Exchange(accepted, Mergeable(Replies)) :
             Finish("read", dxl_id, <<\h0184, 4>>, accepted, reply,
                    read(Port(rxbuf), dxl_id, \h0184, 4, accepted,
                         reply.stream))

Write ==
    /\ pc = "idle"
    /\ \E dxl_id \in Targets, accepted \in Accepts :
         \E reply \in Exchange(accepted, Replies) :
             Finish("write", dxl_id, <<\h0040, 1, 1>>, accepted, reply,
                    _write(Port(rxbuf), dxl_id, WRITE, \h0040, 1, 1,
                           accepted, reply.stream))

RegWrite ==
    /\ pc = "idle"
    /\ \E dxl_id \in Targets, accepted \in Accepts :
         \E reply \in Exchange(accepted, Replies) :
             Finish("reg_write", dxl_id, <<\hFFFF, 1, \hFD>>, accepted, reply,
                    _write(Port(rxbuf), dxl_id, REG_WRITE, \hFFFF, 1, \hFD,
                           accepted, reply.stream))

Action ==
    /\ pc = "idle"
    /\ \E dxl_id \in Targets, accepted \in Accepts :
         \E reply \in Exchange(accepted, Replies) :
             Finish("action", dxl_id, << >>, accepted, reply,
                    _send(Port(rxbuf), dxl_id, ACTION_INSTRUCTION, << >>,
                          accepted, reply.stream))

\* factory_reset, factory_reset_except_id, factory_reset_except_id_baudrate
FactoryReset ==
    /\ pc = "idle"
    /\ \E dxl_id \in Targets, accepted \in Accepts,
          scope \in {\hFF, \h01, \h02} :
         \E reply \in Exchange(accepted, Replies) :
             Finish("factory_reset", dxl_id, <<scope>>, accepted, reply,
                    _send(Port(rxbuf), dxl_id, FACTORY_RESET, <<scope>>,
                          accepted, reply.stream))

Reboot ==
    /\ pc = "idle"
    /\ \E dxl_id \in Targets, accepted \in Accepts :
         \E reply \in Exchange(accepted, Replies) :
             Finish("reboot", dxl_id, << >>, accepted, reply,
                    _send(Port(rxbuf), dxl_id, REBOOT, << >>, accepted,
                          reply.stream))

\* clear_position, clear_errors
Clear ==
    /\ pc = "idle"
    /\ \E dxl_id \in Targets, accepted \in Accepts,
          magic \in { <<\h01, \h44, \h58, \h4C, \h22>>,
                      <<\h02, \h45, \h52, \h43, \h4C>> } :
         \E reply \in Exchange(accepted, Replies) :
             Finish("clear", dxl_id, magic, accepted, reply,
                    _send(Port(rxbuf), dxl_id, CLEAR, magic, accepted,
                          reply.stream))

\* control_table_backup, control_table_restore
ControlTableBackup ==
    /\ pc = "idle"
    /\ \E dxl_id \in Targets, accepted \in Accepts,
          magic \in { <<\h01, \h43, \h54, \h52, \h4C>>,
                      <<\h02, \h43, \h54, \h52, \h4C>> } :
         \E reply \in Exchange(accepted, Replies) :
             Finish("control_table_backup", dxl_id, magic, accepted, reply,
                    _send(Port(rxbuf), dxl_id, CONTROL_TABLE_BACKUP, magic,
                          accepted, reply.stream))

Next ==
    \/ Transmit
    \/ Receive
    \/ ConnectionReadPacket
    \/ Echo
    \/ Ping
    \/ Read
    \/ Write
    \/ RegWrite
    \/ Action
    \/ FactoryReset
    \/ Reboot
    \/ Clear
    \/ ControlTableBackup
    \/ NextCall

Spec == Init /\ [][Next]_vars
SpecStuffed == InitStuffed /\ [][Next]_vars
SpecFlipped == InitFlipped /\ [][Next]_vars

NextV1 ==
    \/ ReadFrom
    \/ ConnectionReadPacketV1
    \/ NextCall

SpecV1 == InitV1 /\ [][NextV1]_vars

SyncRead ==
    /\ pc = "idle"
    /\ \E dxl_ids \in GatherIds, accepted \in Accepts :
         \E reply \in Gathers(accepted, Len(dxl_ids)) :
             Finish("sync_read", BROADCAST_ID, <<dxl_ids, \h0084, 3>>,
                    accepted, reply,
                    sync_read(Port(rxbuf), dxl_ids, \h0084, 3, accepted,
                              reply.stream))

BulkRead ==
    /\ pc = "idle"
    /\ \E dxl_ids \in GatherIds, accepted \in Accepts :
         \E reply \in Gathers(accepted, Len(dxl_ids)) :
             Finish("bulk_read", BROADCAST_ID,
                    <<dxl_ids, [i \in DOMAIN dxl_ids |-> \h0084],
                      [i \in DOMAIN dxl_ids |-> 3]>>,
                    accepted, reply,
                    bulk_read(Port(rxbuf), dxl_ids,
                              [i \in DOMAIN dxl_ids |-> \h0084],
                              [i \in DOMAIN dxl_ids |-> 3], accepted,
                              reply.stream))

BroadcastPing ==
    /\ pc = "idle"
    /\ \E accepted \in Accepts :
         \E reply \in Gathers(accepted, MaxDevices) :
             Finish("broadcast_ping", BROADCAST_ID, << >>, accepted, reply,
                    broadcast_ping(Port(rxbuf), accepted, reply.stream))

\* sync_write on a port that may hold bytes of an earlier exchange
SyncWrite ==
    /\ pc = "idle"
    /\ \E dxl_ids \in GatherIds, accepted \in Accepts :
         Finish("sync_write", BROADCAST_ID,
                <<dxl_ids, \h0040, 1, [i \in DOMAIN dxl_ids |-> \hFD]>>,
                accepted, Gather(<< >>),
                sync_write(Port(rxbuf), dxl_ids, \h0040, 1,
                           [i \in DOMAIN dxl_ids |-> \hFD], accepted))

\* bulk_write on a port that may hold bytes of an earlier exchange
BulkWrite ==
    /\ pc = "idle"
    /\ \E dxl_ids \in GatherIds, accepted \in Accepts :
         Finish("bulk_write", BROADCAST_ID,
                <<dxl_ids, [i \in DOMAIN dxl_ids |-> \h0040],
                  [i \in DOMAIN dxl_ids |-> 1],
                  [i \in DOMAIN dxl_ids |-> \hFD]>>,
                accepted, Gather(<< >>),
                bulk_write(Port(rxbuf), dxl_ids,
                           [i \in DOMAIN dxl_ids |-> \h0040],
                           [i \in DOMAIN dxl_ids |-> 1],
                           [i \in DOMAIN dxl_ids |-> \hFD], accepted))

NextGather ==
    \/ SyncRead
    \/ BulkRead
    \/ BroadcastPing
    \/ SyncWrite
    \/ BulkWrite
    \/ NextCall

SpecGather == InitEnv("gather") /\ [][NextGather]_vars

SerialV1Ping ==
    /\ pc = "idle"
    /\ \E dxl_id \in Targets, accepted \in Accepts :
         \E reply \in Exchange(accepted, SerialV1Replies) :
             Finish("v1_ping", dxl_id, << >>, accepted, reply,
                    SerialV1_ping(Port(rxbuf), dxl_id, accepted, reply.stream))

SerialV1Read ==
    /\ pc = "idle"
    /\ \E dxl_id \in Targets, accepted \in Accepts :
         \E reply \in Exchange(accepted, SerialV1Replies) :
             Finish("v1_read", dxl_id, <<\h2B, 4>>, accepted, reply,
                    SerialV1_read(Port(rxbuf), dxl_id, \h2B, 4, accepted,
                                  reply.stream))

\* write and reg_write
SerialV1Write ==
    /\ pc = "idle"
    /\ \E dxl_id \in Targets, accepted \in Accepts,
          instruction \in {WRITE, REG_WRITE} :
         \E reply \in Exchange(accepted, SerialV1Replies) :
             Finish(IF instruction = WRITE THEN "v1_write" ELSE "v1_reg_write",
                    dxl_id, <<\h1E, 2, \h0201>>, accepted, reply,
                    SerialV1__write(Port(rxbuf), dxl_id, instruction, \h1E, 2,
                                    \h0201, accepted, reply.stream))

SerialV1Action ==
    /\ pc = "idle"
    /\ \E accepted \in Accepts :
         Finish("v1_action", BROADCAST_ID, << >>, accepted, Silent,
                SerialV1_action(Port(rxbuf), accepted))

SerialV1FactoryReset ==
    /\ pc = "idle"
    /\ \E dxl_id \in ResetTargets, accepted \in Accepts :
         \E reply \in Exchange(accepted, ResetReplies(dxl_id)) :
             Finish("v1_factory_reset", dxl_id, << >>, accepted, reply,
                    SerialV1_factory_reset(Port(rxbuf), dxl_id, accepted,
                                           reply.stream))

SerialV1Reboot ==
    /\ pc = "idle"
    /\ \E dxl_id \in Targets, accepted \in Accepts :
         \E reply \in Exchange(accepted, SerialV1Replies) :
             Finish("v1_reboot", dxl_id, << >>, accepted, reply,
                    SerialV1_reboot(Port(rxbuf), dxl_id, accepted,
                                    reply.stream))

SerialV1SyncWrite ==
    /\ pc = "idle"
    /\ \E dxl_ids \in GatherIds, accepted \in Accepts :
         Finish("v1_sync_write", BROADCAST_ID,
                <<dxl_ids, \h1E, 2, [i \in DOMAIN dxl_ids |-> \h0201]>>,
                accepted, Silent,
                SerialV1_sync_write(Port(rxbuf), dxl_ids, \h1E, 2,
                                    [i \in DOMAIN dxl_ids |-> \h0201],
                                    accepted))

SerialV1BulkRead ==
    /\ pc = "idle"
    /\ \E dxl_ids \in GatherIds, accepted \in Accepts :
         \E reply \in V1Gathers(accepted, Len(dxl_ids)) :
             Finish("v1_bulk_read", BROADCAST_ID,
                    <<dxl_ids, [i \in DOMAIN dxl_ids |-> \h2B],
                      [i \in DOMAIN dxl_ids |-> 3]>>,
                    accepted, reply,
                    SerialV1_bulk_read(Port(rxbuf), dxl_ids,
                                       [i \in DOMAIN dxl_ids |-> \h2B],
                                       [i \in DOMAIN dxl_ids |-> 3],
                                       accepted, reply.stream))

NextSerialV1 ==
    \/ SerialV1Ping
    \/ SerialV1Read
    \/ SerialV1Write
    \/ SerialV1Action
    \/ SerialV1FactoryReset
    \/ SerialV1Reboot
    \/ SerialV1SyncWrite
    \/ SerialV1BulkRead
    \/ NextCall

SpecSerialV1 == InitEnv("serial_v1") /\ [][NextSerialV1]_vars

\* Connection.write_packet of v1.py on its own, for a FACTORY_RESET or a
\* WRITE packet
WritePacketV1 ==
    /\ pc = "idle"
    /\ \E params \in { << >>, <<\h1E, \h01, \h02>> }, counts \in WriteCounts :
         Finish("v1_write_packet", 1,
                <<v1_InstructionPacket_raw(1, IF params = << >>
                                              THEN FACTORY_RESET ELSE WRITE,
                                           params)>>,
                counts, Silent,
                Outcome("", None, None,
                        write_packet_loop(
                            v1_InstructionPacket_raw(1, IF params = << >>
                                                        THEN FACTORY_RESET
                                                        ELSE WRITE, params),
                            0, counts, << >>),
                        ser_wrote(Port(rxbuf),
                            write_packet_loop(
                                v1_InstructionPacket_raw(1, IF params = << >>
                                                            THEN FACTORY_RESET
                                                            ELSE WRITE, params),
                                0, counts, << >>))))

\* Connection.write_packet of v2.py on its own, for a PING or a WRITE packet
WritePacketV2 ==
    /\ pc = "idle"
    /\ \E params \in { << >>, <<\h40, \h00, \h01>> }, counts \in WriteCounts :
         Finish("v2_write_packet", 1,
                <<v2_InstructionPacket_raw(1, IF params = << >>
                                              THEN PING ELSE WRITE, params)>>,
                counts, Silent,
                Outcome("", None, None,
                        v2_write_packet_loop(
                            v2_InstructionPacket_raw(1, IF params = << >>
                                                        THEN PING ELSE WRITE,
                                                     params),
                            0, counts, << >>),
                        ser_wrote(Port(rxbuf),
                            v2_write_packet_loop(
                                v2_InstructionPacket_raw(1, IF params = << >>
                                                            THEN PING ELSE WRITE,
                                                         params),
                                0, counts, << >>))))

\* BaseConnection.write_packet of base.py on its own; buffer is tx.raw
\* after tx.add_stuffing()
WritePacketBase ==
    /\ pc = "idle"
    /\ \E params \in { << >>, <<\hFF, \hFF, \hFD>> }, counts \in WriteCounts :
         Finish("base_write_packet", 1,
                <<InstructionPacketV2_packet(
                      add_stuffing(InstructionPacketV2(1, WRITE, params)))>>,
                counts, Silent,
                Outcome("", None, None,
                        write_packet_loop(
                            InstructionPacketV2_packet(
                                add_stuffing(InstructionPacketV2(1, WRITE,
                                                                 params))),
                            0, counts, << >>),
                        ser_wrote(Port(rxbuf),
                            write_packet_loop(
                                InstructionPacketV2_packet(
                                    add_stuffing(InstructionPacketV2(1, WRITE,
                                                                     params))),
                                0, counts, << >>))))

\* what comes back on the bus of a v1.py MotorBus once it has written
BusExchange(counts, replies) == IF counts # << >> THEN {Silent} ELSE replies

BusV1FactoryReset ==
    /\ pc = "idle"
    /\ \E dxl_id \in ResetTargets, counts \in {<< >>, <<3>>} :
         \E reply \in BusExchange(counts, ResetReplies(dxl_id)) :
             Finish("bus_v1_factory_reset", dxl_id, << >>, counts, reply,
                    v1_MotorBus_factory_reset(Port(rxbuf), dxl_id, counts,
                                              reply.stream))

BusV1Read ==
    /\ pc = "idle"
    /\ \E dxl_id \in {1, 2}, counts \in {<< >>, <<3>>} :
         \E reply \in BusExchange(counts, SerialV1Replies) :
             Finish("bus_v1_read", dxl_id, <<\h2B, 4>>, counts, reply,
                    v1_MotorBus_read(Port(rxbuf), dxl_id, \h2B, 4, counts,
                                     reply.stream))

BusV1SyncWrite ==
    /\ pc = "idle"
    /\ \E dxl_ids \in GatherIds, counts \in {<< >>, <<3>>} :
         \E reply \in BusExchange(counts, SerialV1Replies) :
             Finish("bus_v1_sync_write", BROADCAST_ID,
                    <<dxl_ids, \h1E, 2, [i \in DOMAIN dxl_ids |-> \h0201]>>,
                    counts, reply,
                    v1_MotorBus_sync_write(Port(rxbuf), dxl_ids, \h1E, 2,
                        [i \in DOMAIN dxl_ids |-> \h0201], counts,
                        reply.stream))

BusV2SyncWrite ==
    /\ pc = "idle"
    /\ \E dxl_ids \in GatherIds, counts \in {<< >>, <<3>>} :
         Finish("bus_v2_sync_write", BROADCAST_ID,
                <<dxl_ids, \h0040, 1, [i \in DOMAIN dxl_ids |-> \hFD]>>,
                counts, Silent,
                v2_MotorBus_sync_write(Port(rxbuf), dxl_ids, \h0040, 1,
                    [i \in DOMAIN dxl_ids |-> \hFD], counts))

BusV2BulkWrite ==
    /\ pc = "idle"
    /\ \E dxl_ids \in GatherIds, counts \in {<< >>, <<3>>} :
         Finish("bus_v2_bulk_write", BROADCAST_ID,
                <<dxl_ids, [i \in DOMAIN dxl_ids |-> \h0040],
                  [i \in DOMAIN dxl_ids |-> 1],
                  [i \in DOMAIN dxl_ids |-> \hFD]>>,
                counts, Silent,
                v2_MotorBus_bulk_write(Port(rxbuf), dxl_ids,
                    [i \in DOMAIN dxl_ids |-> \h0040],
                    [i \in DOMAIN dxl_ids |-> 1],
                    [i \in DOMAIN dxl_ids |-> \hFD], counts))

NextBus ==
    \/ WritePacketV1
    \/ WritePacketV2
    \/ WritePacketBase
    \/ BusV1FactoryReset
    \/ BusV1Read
    \/ BusV1SyncWrite
    \/ BusV2SyncWrite
    \/ BusV2BulkWrite
    \/ NextCall

SpecBus == InitEnv("bus") /\ [][NextBus]_vars

\* the operations of the three drivers that write an instruction packet,
\* on one port
NextWrites ==
    \/ Transmit
    \/ Ping
    \/ Read
    \/ Write
    \/ NextGather
    \/ NextSerialV1
    \/ BusV1FactoryReset
    \/ BusV1Read
    \/ BusV1SyncWrite
    \/ BusV2SyncWrite
    \/ BusV2BulkWrite

SpecWrites == InitEnv("writes") /\ [][NextWrites]_vars

\* Response(timeout, corrupted, error).ok, read on its own; each flag is
\* None, False or True and error is None or a byte
ResponseOk ==
    /\ pc = "idle"
    /\ \E timeout \in {None, Some(FALSE), Some(TRUE)},
          corrupted \in {None, Some(FALSE), Some(TRUE)},
          error \in {None} \cup { Some(e) : e \in 0 .. 255 } :
         Finish("ok", 0, <<timeout, corrupted, error>>, 0, Silent,
                Outcome("", None,
                        Some(Response_ok(Response(timeout, corrupted, error,
                                                  None, None))),
                        << >>, Port(rxbuf)))

NextResponse ==
    \/ ResponseOk
    \/ NextCall

SpecResponse == InitEnv("response") /\ [][NextResponse]_vars

\* the longest byte string over CrcBytes handed to calc_crc_16
MaxCrcLen == 3

CrcBytes == {\h00, \h01, \h80, \hFD, \hFF}

\* every single byte, and every string over CrcBytes up to MaxCrcLen
CrcInputs ==
    { <<b>> : b \in 0 .. 255 } \cup SeqsOf(CrcBytes, 0, MaxCrcLen)

\* calc_crc_16(packet) on its own
CalcCrc16 ==
    /\ pc = "idle"
    /\ \E packet \in CrcInputs :
         Finish("calc_crc_16", 0, <<packet>>, 0, Silent,
                Outcome("", None, Some(calc_crc_16(packet)), << >>,
                        Port(rxbuf)))

NextCrc ==
    \/ CalcCrc16
    \/ NextCall

SpecCrc == InitEnv("crc") /\ [][NextCrc]_vars

\* the operations of DynamixelSerialV2 and DynamixelSerialV1 that read status
\* packets, on every kind of delivery: intact, prefixed, tailed, stuffed, and
\* with one byte changed on the way. What the gathers meet does not depend
\* on the environment, and the Protocol 1 operations meet the same in "std"
\* and "stuffed": they run in the environments that differ for them.
GatherStatus ==
    /\ env = "std"
    /\ (SyncRead \/ BulkRead \/ BroadcastPing)

SerialV1Status ==
    /\ env # "stuffed"
    /\ (SerialV1Ping \/ SerialV1Read \/ SerialV1Write \/ SerialV1Reboot
           \/ SerialV1BulkRead)

NextStatus ==
    \/ Ping
    \/ Read
    \/ Write
    \/ GatherStatus
    \/ SerialV1Status
    \/ NextCall

InitStatus == \E e \in {"std", "stuffed", "flipped"} : InitEnv(e)

SpecStatus == InitStatus /\ [][NextStatus]_vars

\* the gathers that return a list of values, with the ids listed in order
\* and in reverse order
NextOrder ==
    \/ SyncRead
    \/ BulkRead
    \/ SerialV1BulkRead
    \/ NextCall

SpecOrder == InitEnv("order") /\ [][NextOrder]_vars

----------------------------------------------------------------------------
(* The fast reads: one status packet from BROADCAST_ID carries the answers *)
(* of all devices.                                                         *)

\* the length asked of the device at position i in a fast bulk read
FastLength(i) == IF i % 3 = 1 THEN 4 ELSE IF i % 3 = 2 THEN 2 ELSE 1

\* the per-device lengths of a fast read over n devices
FastLengths(n) == [i \in 1 .. n |-> FastLength(i)]

\* the k-th value of l bytes a device may hold
FastValue(l, k) == [j \in 1 .. l |-> 16 * k + j]

\* What the device at position i puts into the status packet: its error
\* byte, its id (its own, or that of another device), its value of l bytes,
\* and the two CRC bytes that precede its error byte from the second
\* device on.
FastAnswers(i, l) ==
    { [error |-> \h00, id |-> i, value |-> FastValue(l, k), crc |-> c] :
        k \in {1, 2}, c \in { <<\h00, \h00>> } }
    \cup { [error |-> e, id |-> i, value |-> FastValue(l, 1), crc |-> <<\h9A, \h34>>] :
             e \in {\h01, \h08, \h80} }
    \cup { [error |-> \h82, id |-> 7, value |-> FastValue(l, 2), crc |-> <<\h00, \h00>>] }

\* the answers of 1 .. k of the n devices, k <= n
FastAnswerLists(lengths) ==
    UNION { { a \in [1 .. k -> UNION { FastAnswers(i, lengths[i]) : i \in 1 .. k }] :
                \A i \in 1 .. k : a[i] \in FastAnswers(i, lengths[i]) } :
            k \in 1 .. Len(lengths) }

\* the params of the status packet: id1, value1, then crc_lo, crc_hi,
\* error_i, id_i, value_i for each further device
RECURSIVE fast_params(_, _)
fast_params(answers, i) ==
    IF i > Len(answers) THEN << >>
    ELSE (IF i = 1 THEN <<answers[i].id>>
          ELSE answers[i].crc \o <<answers[i].error, answers[i].id>>)
         \o answers[i].value \o fast_params(answers, i + 1)

\* one delivery to a fast read: the status packet, the error byte of the
\* first device in its error field, then a tail; or silence
Fast(answers, tail) ==
    LET frame == IF answers = << >> THEN << >>
                 ELSE build_rx(BROADCAST_ID, answers[1].error,
                               fast_params(answers, 1))
    IN  [answered |-> answers # << >>, answers |-> answers, tail |-> tail,
         frame |-> frame, stream |-> frame \o tail]

\* the deliveries a fast read with these lengths may meet
Fasts(accepted, lengths) ==
    IF accepted \in ShortWrites \/ rxbuf # << >> THEN { Fast(<< >>, << >>) }
    ELSE IF env = "duplex"
        THEN { Fast(<< >>, << >>) }
             \cup { Fast(a, << >>) :
                      a \in { b \in FastAnswerLists(lengths) :
                                \A i \in DOMAIN b :
                                    b[i].error \in {\h00, \h80}
                                    /\ b[i].value = FastValue(lengths[i], 1) } }
    ELSE { Fast(<< >>, << >>) }
         \cup { Fast(a, << >>) : a \in FastAnswerLists(lengths) }
         \cup { Fast(a, <<\h00>>) :
                  a \in { b \in FastAnswerLists(lengths) :
                            \A i \in DOMAIN b : b[i].error = \h00 /\ b[i].value = FastValue(lengths[i], 1) } }

FastIds == { [i \in 1 .. n |-> i] : n \in 0 .. MaxDevices }

FastSyncRead ==
    /\ pc = "idle"
    /\ \E dxl_ids \in FastIds, length \in {1, 2}, accepted \in Accepts :
         \E reply \in Fasts(accepted, [i \in DOMAIN dxl_ids |-> length]) :
             Finish("fast_sync_read", BROADCAST_ID, <<dxl_ids, \h0084, length>>,
                    accepted, reply,
                    fast_sync_read(Port(rxbuf), dxl_ids, \h0084, length,
                                   accepted, reply.stream))

FastBulkRead ==
    /\ pc = "idle"
    /\ \E dxl_ids \in FastIds, accepted \in Accepts :
         \E reply \in Fasts(accepted, FastLengths(Len(dxl_ids))) :
             Finish("fast_bulk_read", BROADCAST_ID,
                    <<dxl_ids, [i \in DOMAIN dxl_ids |-> \h0084],
                      FastLengths(Len(dxl_ids))>>,
                    accepted, reply,
                    fast_bulk_read(Port(rxbuf), dxl_ids,
                                   [i \in DOMAIN dxl_ids |-> \h0084],
                                   FastLengths(Len(dxl_ids)), accepted,
                                   reply.stream))

NextFast ==
    \/ FastSyncRead
    \/ FastBulkRead
    \/ NextCall

SpecFast == InitEnv("fast") /\ [][NextFast]_vars

----------------------------------------------------------------------------
(* The instruction packets on the wire: what each packet class hands to    *)
(* the serial port, for any id, instruction and params.                    *)

\* the params of the packets put on the wire
PacketParams == SeqsOf(StuffBytes \cup {\h00}, 0, MaxParams)

WireIds == {1, BROADCAST_ID}

\* Connection.write_packet(InstructionPacket(...)) of v2.py, the port taking
\* the whole buffer at once
WireV2 ==
    /\ pc = "idle"
    /\ \E packet_id \in WireIds, instruction \in {WRITE, SYNC_WRITE},
          params \in PacketParams :
         Finish("v2_wire", packet_id, <<instruction, params>>, << >>, Silent,
                Outcome("", None, None,
                        v2_write_packet_loop(
                            v2_InstructionPacket_raw(packet_id, instruction,
                                                     params),
                            0, << >>, << >>),
                        ser_wrote(Port(rxbuf),
                            v2_write_packet_loop(
                                v2_InstructionPacket_raw(packet_id, instruction,
                                                         params),
                                0, << >>, << >>))))

\* Connection.write_packet(InstructionPacket(...)) of v1.py, the port taking
\* the whole buffer at once
WireV1 ==
    /\ pc = "idle"
    /\ \E packet_id \in WireIds, instruction \in {WRITE, SYNC_WRITE},
          params \in PacketParams :
         Finish("v1_wire", packet_id, <<instruction, params>>, << >>, Silent,
                Outcome("", None, None,
                        write_packet_loop(
                            v1_InstructionPacket_raw(packet_id, instruction,
                                                     params),
                            0, << >>, << >>),
                        ser_wrote(Port(rxbuf),
                            write_packet_loop(
                                v1_InstructionPacket_raw(packet_id, instruction,
                                                         params),
                                0, << >>, << >>))))

\* InstructionPacketV1(...).write_to(ser) of protocol_v1.py
WriteTo ==
    /\ pc = "idle"
    /\ \E packet_id \in WireIds, instruction \in {WRITE, SYNC_WRITE},
          params \in PacketParams, accepted \in Accepts :
         Finish("write_to", packet_id, <<instruction, params>>, accepted,
                Silent,
                write_to(Port(rxbuf),
                         InstructionPacketV1(packet_id, instruction, params),
                         accepted))

NextWire ==
    \/ WireV2
    \/ WireV1
    \/ WriteTo
    \/ NextCall

SpecWire == InitEnv("wire") /\ [][NextWire]_vars

----------------------------------------------------------------------------
(* Every operation of DynamixelSerialV2 and of DynamixelSerialV1.          *)

OperationsV2 ==
    \/ Ping
    \/ Read
    \/ Write
    \/ RegWrite
    \/ Action
    \/ FactoryReset
    \/ Reboot
    \/ Clear
    \/ ControlTableBackup
    \/ SyncRead
    \/ BulkRead
    \/ BroadcastPing
    \/ SyncWrite
    \/ BulkWrite
    \/ FastSyncRead
    \/ FastBulkRead

OperationsV1 ==
    \/ SerialV1Ping
    \/ SerialV1Read
    \/ SerialV1Write
    \/ SerialV1Action
    \/ SerialV1FactoryReset
    \/ SerialV1Reboot
    \/ SerialV1SyncWrite
    \/ SerialV1BulkRead

NextDuplex ==
    \/ OperationsV2
    \/ OperationsV1
    \/ NextCall

SpecDuplex == InitEnv("duplex") /\ [][NextDuplex]_vars

----------------------------------------------------------------------------
(* The gathers on a bus where one device more than was asked may answer.   *)

NextBounded ==
    \/ SyncRead
    \/ BulkRead
    \/ SerialV1BulkRead
    \/ NextCall

SpecBounded == InitEnv("bounded") /\ [][NextBounded]_vars

-----------------------------------------------------------------------------
(* The header loop turn by turn: receive (protocol_v2.py) and              *)
(* StatusPacketV1.read_from (protocol_v1.py) on a line that goes on        *)
(* delivering bytes.  Time is counted in ticks.                            *)

\* ser.timeout, in ticks
SerialTimeout == 2

\* the most bytes that arrive while a call reads the rest of a packet,
\* its header found
MaxRest == 5

\* the bytes the line delivers: those of the two headers, and 02, a
\* length, an id and an error byte
LineBytes == {\hFF, \hFD, \h00, \h02}

\* what ser.read(n) may return on an empty port: the bytes that arrive
\* while it waits; it returns fewer than n only when the timeout has elapsed
LineReads(n) == SeqsOf(LineBytes, 0, n)

\* the ticks ser.read(n) may take to return data: the whole timeout when
\* it comes back short, else less than a tick or a tick
ReadTicks(n, data) == IF Len(data) < n THEN {SerialTimeout} ELSE {0, 1}

\* one turn of `while not header_found`, from the data its read returned
\* after dt ticks: the scan, then the look at the clock
header_turn(header, data, dt) ==
    LET p == run.packet \o data
        s == scan_header(p, Len(p), header)
    IN  [found   |-> s.found,
         packet  |-> s.packet,
         elapsed |-> run.elapsed + dt,
         more    |-> ~s.found /\ run.elapsed + dt < SerialTimeout]

\* a call is entered: t0 = time.time(), packet = []
Enter(op) ==
    /\ pc = "idle"
    /\ pc' = "busy"
    /\ call' = [op |-> op, packet_id |-> 0, args |-> << >>]
    /\ rxbuf = << >>
    /\ run' = [stage |-> "header", packet |-> << >>, elapsed |-> 0]
    /\ UNCHANGED <<rxbuf, wrote, nreads, wrote_at, sent, res, alerted, env,
                   builder>>

\* the call returns or raises with outcome o, all that arrived read (the
\* reads of the header loop are not counted)
Leave(o) ==
    /\ o.ser.buf = << >>
    /\ pc' = "done"
    /\ res' = [exc |-> o.exc, hw_id |-> o.hw_id, val |-> o.val]
    /\ nreads' = o.ser.reads
    /\ run' = NoRun
    /\ UNCHANGED <<rxbuf, wrote, wrote_at, call, sent, alerted, env, builder>>

\* a turn of the header loop of the call op whose read took dt ticks
HeaderTurn(op, header, dt) ==
    /\ pc = "busy"
    /\ call.op = op
    /\ run.stage = "header"
    /\ \E data \in LineReads(4 - Len(run.packet)) :
         /\ dt \in ReadTicks(4 - Len(run.packet), data)
         /\ LET t == header_turn(header, data, dt)
            IN  IF t.more \/ t.found
                THEN /\ run' = [stage   |-> IF t.found THEN "found" ELSE "header",
                                packet  |-> t.packet,
                                elapsed |-> t.elapsed]
                     /\ UNCHANGED <<rxbuf, wrote, nreads, wrote_at, call,
                                    sent, res, pc, alerted, env, builder>>
                ELSE /\ run' = [NoRun EXCEPT !.stage = "elapsed"]
                     /\ pc' = "done"
                     /\ res' = NoRes
                     /\ UNCHANGED <<rxbuf, wrote, nreads, wrote_at, call,
                                    sent, alerted, env, builder>>

\* receive(ser) is called
ReceiveEnter == env = "line" /\ Enter("receive")

\* a turn of the loop of find_header whose read returned at once
FindHeaderTurn == HeaderTurn("receive", HEADER_V2, 0)

\* a turn of the loop of find_header whose read took time
FindHeaderTick ==
    \E dt \in 1 .. SerialTimeout : HeaderTurn("receive", HEADER_V2, dt)

\* receive after find_header returned True: the reads of the id and the
\* length and of the rest, on what arrives before they time out
ReceiveFound ==
    /\ pc = "busy"
    /\ call.op = "receive"
    /\ run.stage = "found"
    /\ \E data \in LineReads(MaxRest) :
         LET o == receive_packet(ser_read(Port(data), 3))
         IN  Leave(o)

\* StatusPacketV1.read_from(ser) is called
ReadFromEnter == env = "line" /\ Enter("read_from")

\* a turn of the loop of read_from whose read returned at once
ReadFromTurn == HeaderTurn("read_from", HEADER_V1, 0)

\* a turn of the loop of read_from whose read took time
ReadFromTick ==
    \E dt \in 1 .. SerialTimeout : HeaderTurn("read_from", HEADER_V1, dt)

\* read_from after its loop found the header: the reads that complete the
\* four bytes and of the rest, on what arrives before they time out
ReadFromFound ==
    /\ pc = "busy"
    /\ call.op = "read_from"
    /\ run.stage = "found"
    /\ \E data \in LineReads(MaxRest) :
         LET o == read_from_found(run.packet, Port(data))
         IN  Leave(o)

NextLine ==
    \/ ReceiveEnter
    \/ FindHeaderTurn
    \/ FindHeaderTick
    \/ ReceiveFound
    \/ ReadFromEnter
    \/ ReadFromTurn
    \/ ReadFromTick
    \/ ReadFromFound
    \/ NextCall

SpecLine == InitEnv("line") /\ [][NextLine]_vars

\* time passes: of the reads a loop makes one after the other, not all
\* return at once; and a call that has found its header goes on
SpecLineFair ==
    /\ SpecLine
    /\ WF_vars(FindHeaderTick)
    /\ WF_vars(ReceiveFound)
    /\ WF_vars(ReadFromTick)
    /\ WF_vars(ReadFromFound)

\* the parsers and the unicast transactions of both protocols, on frames
\* that stop short
NextShort ==
    \/ Receive
    \/ Ping
    \/ Read
    \/ Write
    \/ ReadFrom
    \/ SerialV1Ping
    \/ SerialV1Read
    \/ SerialV1Write
    \/ NextCall

SpecShort == InitEnv("short") /\ [][NextShort]_vars

-----------------------------------------------------------------------------
(* v2.py: the parameter builders SyncParams and BulkParams                 *)

\* data.to_bytes(n_bytes, byteorder="little", signed=signed) on data >= 0
\* raises OverflowError unless data fits
to_bytes_fits(data, n_bytes, signed) ==
    IF signed THEN 2 * data < 256 ^ n_bytes ELSE data < 256 ^ n_bytes

\* Params.add: what self.params is after the call, and the exception raised
Params_add(params, value, n_bytes, signed) ==
    IF to_bytes_fits(value, n_bytes, signed)
    THEN [exc |-> "", params |-> params \o split_bytes(value, n_bytes)]
    ELSE [exc |-> "OverflowError", params |-> params]

\* what a method of a builder hands back: the object b as the call leaves
\* it and the exception it raised
Built(exc, b) == [exc |-> exc, b |-> b]

\* SyncParams(address, length, signed)
SyncParams_init(address, length, signed) ==
    [NoBuilder EXCEPT !.class = "SyncParams",
                      !.params = split_bytes(address, 2) \o split_bytes(length, 2),
                      !.length = length,
                      !.signed = signed]

\* BulkParams()
BulkParams_init == [NoBuilder EXCEPT !.class = "BulkParams"]

\* the first lines of the four methods: the type is set by the first call
\* and asserted by the later ones
check_type(b, type) ==
    IF b.type = None THEN Built("", [b EXCEPT !.type = Some(type)])
    ELSE IF b.type # Some(type) THEN Built("AssertionError", b)
    ELSE Built("", b)

\* self.add(...) for each of the (value, n_bytes, signed) of adds in turn,
\* then num_motors += 1
RECURSIVE add_all(_, _)
add_all(b, adds) ==
    IF adds = << >> THEN Built("", [b EXCEPT !.num_motors = @ + 1])
    ELSE LET a == Params_add(b.params, Head(adds)[1], Head(adds)[2],
                             Head(adds)[3])
         IN  IF a.exc # "" THEN Built(a.exc, b)
             ELSE add_all([b EXCEPT !.params = a.params], Tail(adds))

\* faulty variant: the type is not asserted
SyncParams_add_motor_unasserted(b, dxl_id) ==
    add_all([b EXCEPT !.type = Some("READ")], <<<<dxl_id, 1, FALSE>>>>)

SyncParams_add_motor(b, dxl_id) ==
    LET c == check_type(b, "READ")
    IN  IF c.exc # "" THEN c
        ELSE add_all(c.b, <<<<dxl_id, 1, FALSE>>>>)

SyncParams_add_value(b, dxl_id, value) ==
    LET c == check_type(b, "WRITE")
    IN  IF c.exc # "" THEN c
        ELSE add_all(c.b, <<<<dxl_id, 1, FALSE>>,
                            <<value, b.length, b.signed>>>>)

\* lengths.append(length); signs.append(signed), after num_motors += 1
BulkParams_add_address(b, dxl_id, address, length, signed) ==
    LET c == check_type(b, "READ")
        a == add_all(c.b, <<<<dxl_id, 1, FALSE>>, <<address, 2, FALSE>>,
                            <<length, 2, FALSE>>>>)
    IN  IF c.exc # "" THEN c
        ELSE IF a.exc # "" THEN a
        ELSE Built("", [a.b EXCEPT !.lengths = Append(@, length),
                                   !.signs = Append(@, signed)])

BulkParams_add_value(b, dxl_id, address, length, value, signed) ==
    LET c == check_type(b, "WRITE")
    IN  IF c.exc # "" THEN c
        ELSE add_all(c.b, <<<<dxl_id, 1, FALSE>>, <<address, 2, FALSE>>,
                            <<length, 2, FALSE>>, <<value, length, signed>>>>)

\* the most calls made on one parameter object
MaxCalls == 3

\* the ids and values handed to the builders: 300 does not fit one byte,
\* 200 does not fit one signed byte
BuilderIds == {1, 300}
BuilderValues == {5, 200, 300}
BuilderLengths == {1, 2}

\* a call on the builder ended with what m holds; the object counts the
\* calls made on it and lists those that returned
Called(op, args, m) ==
    /\ pc = "idle"
    /\ builder.calls < MaxCalls
    /\ pc' = "done"
    /\ call' = [op |-> op, packet_id |-> 0, args |-> args]
    /\ res' = [NoRes EXCEPT !.exc = m.exc]
    /\ builder' = [m.b EXCEPT !.calls = @ + 1,
                              !.accepted = IF m.exc = "" THEN Append(@, op)
                                           ELSE @]
    /\ UNCHANGED <<rxbuf, wrote, nreads, wrote_at, sent, alerted, env, run>>

NewSyncParams ==
    /\ env = "params"
    /\ pc = "idle"
    /\ builder = NoBuilder
    /\ \E length \in BuilderLengths, signed \in BOOLEAN :
         builder' = SyncParams_init(\h0084, length, signed)
    /\ UNCHANGED <<rxbuf, wrote, nreads, wrote_at, call, sent, res, pc,
                   alerted, env, run>>

NewBulkParams ==
    /\ env = "params"
    /\ pc = "idle"
    /\ builder = NoBuilder
    /\ builder' = BulkParams_init
    /\ UNCHANGED <<rxbuf, wrote, nreads, wrote_at, call, sent, res, pc,
                   alerted, env, run>>

AddMotor ==
    /\ builder.class = "SyncParams"
    /\ \E dxl_id \in BuilderIds :
         Called("add_motor", <<dxl_id>>, SyncParams_add_motor(builder, dxl_id))

AddValue ==
    /\ builder.class = "SyncParams"
    /\ \E dxl_id \in BuilderIds, value \in BuilderValues :
         Called("add_value", <<dxl_id, value>>,
                SyncParams_add_value(builder, dxl_id, value))

AddAddress ==
    /\ builder.class = "BulkParams"
    /\ \E dxl_id \in BuilderIds, length \in BuilderLengths, signed \in BOOLEAN :
         Called("add_address", <<dxl_id, \h0040, length, signed>>,
                BulkParams_add_address(builder, dxl_id, \h0040, length, signed))

BulkAddValue ==
    /\ builder.class = "BulkParams"
    /\ \E dxl_id \in BuilderIds, length \in BuilderLengths,
          value \in BuilderValues \ {200} :
         Called("add_value", <<dxl_id, \h0040, length, value, FALSE>>,
                BulkParams_add_value(builder, dxl_id, \h0040, length, value,
                                     FALSE))

NextParams ==
    \/ NewSyncParams
    \/ NewBulkParams
    \/ AddMotor
    \/ AddValue
    \/ AddAddress
    \/ BulkAddValue
    \/ NextCall

SpecParams == InitEnv("params") /\ [][NextParams]_vars

-----------------------------------------------------------------------------
(* protocol_v1.py: a value written and read back                           *)

\* the values of n_bytes bytes that are split and merged: every value of
\* one byte, and of the wider ones those below 300 and a few with bytes
\* that all differ (TLC's integers are 32-bit, so of the four-byte values
\* only those whose lowest byte is below 80 are merged)
RoundTripValues(n_bytes) ==
    IF n_bytes = 1 THEN 0 .. 255
    ELSE IF n_bytes = 2 THEN 0 .. 299 \cup {\h0102, \h7F00, \hFFFE, \hFFFF}
    ELSE { v \in 0 .. 299 : v % 256 < 128 }
             \cup {\h01020304, \h7F000000, \h00010000}

\* merge_bytes(split_bytes(value, n_bytes=length)): the params _write sends
\* for a value, decoded as Status.parse_bytes decodes the params of a read
RoundTripV1 ==
    /\ env = "roundtrip"
    /\ pc = "idle"
    /\ \E length \in {1, 2, 4} :
         \E value \in RoundTripValues(length) :
             Finish("v1_round_trip", 0, <<value, length>>, 0, Silent,
                    Outcome("", None,
                            Some(v1_merge_bytes(split_bytes(value, length))),
                            << >>, Port(rxbuf)))

NextRoundTrip == RoundTripV1 \/ NextCall

SpecRoundTrip == InitEnv("roundtrip") /\ [][NextRoundTrip]_vars

----------------------------------------------------------------------------
(* Vocabulary of the properties.                                           *)

Done == pc = "done"

\* the calls that run one unicast transaction and hand back its Response
DirectOps == {"write", "reg_write", "action", "factory_reset", "reboot",
              "clear", "control_table_backup"}
DecodingOps == {"ping", "read"}
UnicastOps == DirectOps \cup DecodingOps

\* the instruction was written in full
Written == sent.accepted = WriteAll

\* the input buffer was empty and the bus delivered exactly one intact
\* status frame, with nothing before or after it
CleanReply ==
    /\ sent.before = << >>
    /\ sent.reply.answered
    /\ sent.reply.prefix = << >>
    /\ sent.reply.flip = None
    /\ sent.reply.tail = << >>

\* s occurs in t as a contiguous sub-sequence
Occurs(s, t) == \E i \in 0 .. Len(t) - Len(s) : Slice(t, i, Len(s)) = s

\* the last call returned (raised nothing) the value v
Returned(v) == res.exc = "" /\ res.val = Some(v)

TimeoutResponse == Response(Some(TRUE), Some(FALSE), None, None, None)
CorruptedResponse == Response(Some(FALSE), Some(TRUE), None, None, None)

----------------------------------------------------------------------------
(* C1: garbage before a valid v2 status frame does not change what         *)
(* receive returns: with any prefix that does not contain the header, the  *)
(* outcome is the outcome for the frame alone.                             *)

\* what the call returns for the frame alone on an empty port
AloneV2 ==
    IF call.op = "receive" THEN receive(Port(sent.reply.frame))
    ELSE v2_read_packet(Port(sent.reply.frame))

\* the last call read a reply made of garbage and an intact frame
ReadPrefixed(ops) ==
    /\ Done
    /\ call.op \in ops
    /\ sent.before = << >>
    /\ sent.reply.answered
    /\ sent.reply.flip = None
    /\ sent.reply.tail = << >>

C1_ResyncV2 ==
    (ReadPrefixed({"receive", "read_packet"})
        /\ ~Occurs(HEADER_V2, sent.reply.prefix))
    => /\ res.exc = AloneV2.exc
       /\ res.hw_id = AloneV2.hw_id
       /\ res.val = AloneV2.val

(* C2: garbage without 0xFF before a valid v1 status frame does not change *)
(* what StatusPacketV1.read_from and Connection.read_packet (v1.py)        *)
(* return: the same id, error, params and validity as for the frame alone. *)

AloneV1 ==
    IF call.op = "read_from" THEN StatusPacketV1_read_from(Port(sent.reply.frame))
    ELSE v1_read_packet(Port(sent.reply.frame))

C2_ResyncV1 ==
    (ReadPrefixed({"read_from", "read_packet"})
        /\ \A k \in 1 .. Len(sent.reply.prefix) : sent.reply.prefix[k] # \hFF)
    => /\ res.exc = AloneV1.exc
       /\ res.val = AloneV1.val

----------------------------------------------------------------------------
(* C3: in every packet transmit puts on the wire, each FF FF FD inside the *)
(* on-wire params is followed by FD, the length field is the on-wire param *)
(* count + 3, and the CRC field is the CRC of the bytes before it.         *)

WireParams(buffer) == SubSeq(buffer, 9, Len(buffer) - 2)
WireLength(buffer) == buffer[6] + 256 * buffer[7]
WireCrc(buffer) == buffer[Len(buffer) - 1] + 256 * buffer[Len(buffer)]

WellStuffed(params) ==
    \A i \in 0 .. Len(params) - 3 :
        Slice(params, i, 3) = <<\hFF, \hFF, \hFD>>
            => Slice(params, i + 3, 1) = <<\hFD>>

C3_WireStuffed ==
    \A k \in 1 .. Len(wrote) :
        /\ WellStuffed(WireParams(wrote[k]))
        /\ WireLength(wrote[k]) = Len(WireParams(wrote[k])) + 3
        /\ WireCrc(wrote[k]) = calc_crc_16(DropLast(wrote[k], 2))

\* a packet whose params FF FF FD went out as FF FF FD FD
C3_Witness ==
    /\ Done
    /\ call.op = "transmit"
    /\ call.args[2] = <<\hFF, \hFF, \hFD>>
    /\ WireParams(wrote[1]) = <<\hFF, \hFF, \hFD, \hFD>>

----------------------------------------------------------------------------
(* C4: stuffing round-trips: params sent out stuffed and handed back by    *)
(* the device as they were on the wire are exposed exactly as they were    *)
(* given, also when they contain FF FF FD FD.                              *)

C4_StuffingRoundTrip ==
    (Done /\ call.op = "echo")
    => /\ res.exc = ""
       /\ res.val # None
       /\ res.val[1].data = Some(call.args[2])

\* the round trip of params that hold FF FF FD FD themselves
C4_Witness ==
    /\ Done
    /\ call.op = "echo"
    /\ call.args[2] = <<\hFF, \hFF, \hFD, \hFD>>
    /\ sent.reply.params = <<\hFF, \hFF, \hFD, \hFD, \hFD>>
    /\ res.val # None
    /\ res.val[1].data = Some(<<\hFF, \hFF, \hFD, \hFD>>)

----------------------------------------------------------------------------
(* C5: the params a CRC-valid status packet exposes.                       *)

\* the call hands back raw params (a packet's, or a Response's data)
ExposesParams ==
    /\ Done
    /\ res.exc = ""
    /\ res.val # None
    /\ \/ call.op = "receive" /\ StatusPacketV2_valid(res.val[1])
       \/ call.op \in DirectOps /\ res.val[1].data # None

Exposed == IF call.op = "receive" THEN res.val[1].params ELSE res.val[1].data[1]

\* C5 as stated: no FF FF FD FD occurs in the params exposed to callers
C5_NoStuffingExposed ==
    ExposesParams => ~Occurs(<<\hFF, \hFF, \hFD, \hFD>>, Exposed)

\* C5 amended: FF FF FD FD occurs in the exposed params only where the wire
\* carried FF FF FD FD FD, that is a payload FF FF FD FD with its stuffing
C5_StuffingRemoved ==
    (ExposesParams /\ CleanReply)
    => \/ ~Occurs(<<\hFF, \hFF, \hFD, \hFD>>, Exposed)
       \/ Occurs(<<\hFF, \hFF, \hFD, \hFD, \hFD>>, sent.reply.params)

\* a stuffed FF FF FD FD on the wire is exposed as FF FF FD
C5_Witness ==
    /\ ExposesParams
    /\ CleanReply
    /\ sent.reply.params = <<\hFF, \hFF, \hFD, \hFD>>
    /\ Exposed = <<\hFF, \hFF, \hFD>>

----------------------------------------------------------------------------
(* C7: for a CRC-valid status packet that receive has read, HardwareError  *)
(* is raised exactly when bit 0x80 of its error byte is set, and carries   *)
(* the packet's id; with an error of 0x01..0x7F the packet is returned.    *)

C7_HardwareAlert ==
    (Done /\ call.op = "receive" /\ CleanReply)
    => /\ (res.exc = "HardwareError") <=> (sent.reply.error >= 128)
       /\ res.exc = "HardwareError" => res.hw_id = Some(sent.reply.packet_id)
       /\ sent.reply.error < 128
            => /\ res.exc = ""
               /\ res.val # None
               /\ res.val[1].packet_id = sent.reply.packet_id
               /\ res.val[1].error = sent.reply.error

\* the alert raised for device 2, and a device error returned as a packet
C7_Witness ==
    /\ Done
    /\ call.op = "receive"
    /\ CleanReply
    /\ sent.reply.error = \h82
    /\ res.exc = "HardwareError"
    /\ res.hw_id = Some(2)

----------------------------------------------------------------------------
(* C8: a unicast call that raises the hardware alert has consumed exactly  *)
(* the bytes of the offending frame, and the next unicast call, answered   *)
(* by a valid frame, returns that answer.                                  *)

\* the Response a unicast call owes for an intact answer without alert bit
AnswerOf(op, reply) ==
    LET r == Response(Some(FALSE), Some(FALSE), Some(reply.error),
                      Some(reply.packet_id), Some(reply.params))
    IN  IF reply.error # 0 \/ op \in DirectOps THEN r
        ELSE IF op = "read"
             THEN [r EXCEPT !.data = Some(merge_bytes(reply.params))]
        ELSE [r EXCEPT !.data = Some(
                 [model_number     |-> reply.params[1] + 256 * reply.params[2],
                  firmware_version |-> reply.params[3],
                  dxl_id           |-> reply.packet_id])]

\* the answer has the params the call decodes (PING: model number, firmware)
Decodable(op, reply) ==
    (op = "ping" /\ reply.error = 0) => Len(reply.params) >= 3

C8_PortReadyAfterAlert ==
    /\ (/\ Done
        /\ call.op \in UnicastOps
        /\ res.exc = "HardwareError"
        /\ sent.before = << >>
        /\ sent.reply.prefix = << >>
        /\ sent.reply.flip = None)
       => rxbuf = sent.reply.tail
    /\ (/\ Done
        /\ alerted
        /\ call.op \in UnicastOps
        /\ Written
        /\ CleanReply
        /\ sent.reply.error < 128
        /\ Decodable(call.op, sent.reply))
       => Returned(AnswerOf(call.op, sent.reply))

\* the call after an alert returns the answer it was given
C8_Witness ==
    /\ Done
    /\ alerted
    /\ call.op = "ping"
    /\ CleanReply
    /\ sent.reply.error = 0
    /\ res.exc = ""
    /\ res.val # None
    /\ res.val[1].dxl_id = Some(sent.reply.packet_id)
    /\ res.val[1].data # None

----------------------------------------------------------------------------
(* C6: a status frame of which one byte after the header arrived changed   *)
(* makes the unicast transaction return Response(corrupted=true): not a    *)
(* success, not a timeout, not an exception.                               *)

C6_FlipIsCorrupted ==
    (/\ Done
     /\ call.op \in DirectOps
     /\ Written
     /\ sent.before = << >>
     /\ sent.reply.answered
     /\ sent.reply.flip # None)
    => Returned(CorruptedResponse)

----------------------------------------------------------------------------
(* C9: a unicast transaction ends in one of three ways and, unless the     *)
(* frame carries the hardware alert bit, raises nothing: a timeout when no *)
(* complete frame came, corrupted (and nothing else) when a complete frame *)
(* fails its CRC, and otherwise the frame's id, error and params.          *)

\* the error byte as it arrived
ErrorOnWire == sent.reply.stream[Len(sent.reply.prefix) + 9]

\* the length field as it arrived
LengthOnWire ==
    sent.reply.stream[Len(sent.reply.prefix) + 6]
        + 256 * sent.reply.stream[Len(sent.reply.prefix) + 7]

\* header, id, length and `length` more bytes all arrived
CompleteFrame ==
    /\ sent.reply.answered
    /\ Len(sent.reply.stream) >= Len(sent.reply.prefix) + 7 + LengthOnWire

C9_ThreeOutcomes ==
    (/\ Done
     /\ call.op \in DirectOps
     /\ Written
     /\ sent.before = << >>
     /\ sent.reply.prefix = << >>
     /\ ~(sent.reply.answered /\ ErrorOnWire >= 128))
    => /\ res.exc = ""
       /\ res.val # None
       /\ res.val[1].timeout = Some(TRUE) \/ res.val[1].corrupted = Some(TRUE)
            \/ (res.val[1].timeout = Some(FALSE)
                    /\ res.val[1].corrupted = Some(FALSE))
       /\ ~CompleteFrame => res.val[1] = TimeoutResponse
       /\ (CompleteFrame /\ sent.reply.flip # None)
            => res.val[1] = CorruptedResponse
       /\ (CompleteFrame /\ sent.reply.flip = None)
            => res.val[1] = AnswerOf(call.op, sent.reply)

----------------------------------------------------------------------------
(* C10: a device error is data: every unicast operation answered by a     *)
(* CRC-valid status with error 0x01..0x7F returns a Response with that     *)
(* error and the frame's id, not ok, its params left undecoded.            *)

C10_DeviceErrorIsData ==
    (/\ Done
     /\ call.op \in UnicastOps
     /\ Written
     /\ CleanReply
     /\ sent.reply.error \in 1 .. 127)
    => /\ res.exc = ""
       /\ res.val # None
       /\ res.val[1].error = Some(sent.reply.error)
       /\ res.val[1].dxl_id = Some(sent.reply.packet_id)
       /\ ~Response_ok(res.val[1])
       /\ res.val[1].data = Some(sent.reply.params)

\* a PING answered with error 0x7F and no params comes back undecoded
C10_Witness ==
    /\ Done
    /\ call.op = "ping"
    /\ CleanReply
    /\ sent.reply.error = \h7F
    /\ sent.reply.params = << >>
    /\ res.exc = ""
    /\ res.val # None
    /\ res.val[1].error = Some(\h7F)
    /\ res.val[1].data = Some(<< >>)

----------------------------------------------------------------------------
(* C11: Response.ok is not timeout, not corrupted, and error absent or 0,  *)
(* for every timeout and corrupted in {None, False, True} and every error  *)
(* in {None, 0..255}; a flag that is None counts as false.                 *)

C11_OkPredicate ==
    (Done /\ call.op = "ok")
    => res.val = Some(/\ call.args[1] # Some(TRUE)
                      /\ call.args[2] # Some(TRUE)
                      /\ (call.args[3] = None \/ call.args[3] = Some(0)))

\* a Response with no flag set and no error is ok
C11_Witness ==
    /\ Done
    /\ call.op = "ok"
    /\ call.args = <<None, None, None>>
    /\ res.val = Some(TRUE)

----------------------------------------------------------------------------
(* Vocabulary of the gather properties.                                    *)

GatherReads == {"sync_read", "bulk_read"}

\* a gather read that was written in full to a port with an empty buffer
Gathering == Done /\ call.op \in GatherReads /\ Written /\ sent.before = << >>

\* the answers the devices sent, and how many devices were addressed
Answers == sent.reply.answers
Addressed == Len(call.args[1])

\* a valid zero-error frame
GoodAnswer(a) == a.error = \h00 /\ ~a.broken

\* the first k devices answered with valid zero-error frames
GoodUpTo(k) == k <= Len(Answers) /\ \A i \in 1 .. k : GoodAnswer(Answers[i])

\* the values of the first k answers, in arrival order
ValuesUpTo(k) == [i \in 1 .. k |-> merge_bytes(Answers[i].params)]

----------------------------------------------------------------------------
(* C12: in sync_read / bulk_read over N devices, when the k-th status      *)
(* (k < N) is CRC-valid with a non-zero error, the gather stops there: no  *)
(* later status is read, and the Response returned carries that error, is  *)
(* not ok and holds the values of the k-1 devices before it.               *)

C12_StopsAtDeviceError ==
    \A k \in 1 .. MaxDevices :
        (/\ Gathering
         /\ k < Addressed
         /\ GoodUpTo(k - 1)
         /\ k <= Len(Answers)
         /\ Answers[k].error = \h01
         /\ ~Answers[k].broken)
        => /\ res.exc = ""
           /\ res.val[1].error = Some(\h01)
           /\ ~Response_ok(res.val[1])
           /\ res.val[1].data = Some(ValuesUpTo(k - 1))
           /\ rxbuf = answer_stream(Answers, k + 1)

----------------------------------------------------------------------------
(* C13: in sync_read / bulk_read over N devices, when the first k < N      *)
(* devices answer with valid zero-error frames and the next answer is      *)
(* missing or fails the CRC, no exception is raised and the Response       *)
(* returned is not ok, has timeout = True (corrupted = True for the CRC    *)
(* failure) and holds the k values decoded so far, in arrival order.       *)

C13_PartialGather ==
    \A k \in 0 .. MaxDevices - 1 :
        (/\ Gathering
         /\ k < Addressed
         /\ GoodUpTo(k)
         /\ (Len(Answers) > k => Answers[k + 1].broken))
        => /\ res.exc = ""
           /\ ~Response_ok(res.val[1])
           /\ res.val[1].data = Some(ValuesUpTo(k))
           /\ (Len(Answers) = k => res.val[1].timeout = Some(TRUE))
           /\ (Len(Answers) > k => res.val[1].corrupted = Some(TRUE))

----------------------------------------------------------------------------
(* C14: broadcast_ping, when m >= 1 devices answer in sequence with valid  *)
(* zero-error PING statuses and the bus then stays silent, ends on the     *)
(* timeout that follows and returns a Response that is ok and whose data   *)
(* maps exactly each responding id to model_number = little-endian merge   *)
(* of params[0:2] and firmware_version = params[2].                        *)

\* a broadcast_ping written in full to an empty port, answered by m >= 1
\* devices with valid zero-error statuses
PingGathered ==
    /\ Done
    /\ call.op = "broadcast_ping"
    /\ Written
    /\ sent.before = << >>
    /\ Len(Answers) >= 1
    /\ GoodUpTo(Len(Answers))

C14_BroadcastPing ==
    PingGathered
    => /\ res.exc = ""
       /\ Response_ok(res.val[1])
       /\ DOMAIN res.val[1].data[1] = 1 .. Len(Answers)
       /\ \A i \in 1 .. Len(Answers) :
            res.val[1].data[1][i] =
                [model_number     |-> Answers[i].params[1] + 256 * Answers[i].params[2],
                 firmware_version |-> Answers[i].params[3]]
       /\ rxbuf = << >>
       /\ nreads = 3 * Len(Answers) + 1

\* devices 1 and 2 answer with models 1030 and 1029, firmware 38 and 37
C14_Witness ==
    /\ PingGathered
    /\ Len(Answers) = 2
    /\ res.exc = ""
    /\ res.val[1].data[1] = <<[model_number |-> 1030, firmware_version |-> 38],
                              [model_number |-> 1029, firmware_version |-> 37]>>

----------------------------------------------------------------------------
(* C15: SYNC_WRITE and BULK_WRITE never read from the port: in every       *)
(* driver the operation performs its write and returns without a serial    *)
(* read, and the bytes waiting in the input buffer are left untouched.     *)

\* sync_write and bulk_write of DynamixelSerialV1, DynamixelSerialV2,
\* v1.MotorBus and v2.MotorBus
MultiWrites ==
    {"v1_sync_write", "sync_write", "bulk_write",
     "bus_v1_sync_write", "bus_v2_sync_write", "bus_v2_bulk_write"}

C15_WritesNeverRead ==
    (Done /\ call.op \in MultiWrites /\ res.exc # "AssertionError")
    => nreads = 0 /\ rxbuf = sent.before

----------------------------------------------------------------------------
(* C16: a short write is fatal for the transaction: when the serial write  *)
(* accepts fewer bytes than the instruction packet holds, the Protocol 2   *)
(* operations raise ConnectionError out of transmit, the Protocol 1        *)
(* operations return False (None for read and bulk_read), and in both      *)
(* cases no serial read is issued afterwards.                              *)

\* the operations of DynamixelSerialV2 (and transmit itself) and those of
\* DynamixelSerialV1 that return a flag or a value
TransmitOps ==
    {"transmit", "ping", "read", "write", "sync_read", "bulk_read",
     "broadcast_ping", "sync_write", "bulk_write"}
WriteToFlagOps ==
    {"v1_ping", "v1_write", "v1_reg_write", "v1_action", "v1_factory_reset",
     "v1_reboot", "v1_sync_write"}
WriteToValueOps == {"v1_read", "v1_bulk_read"}

\* a call whose one serial write took fewer bytes than it was given
ShortWritten ==
    /\ Done
    /\ call.op \in TransmitOps \cup WriteToFlagOps \cup WriteToValueOps
    /\ Len(wrote) = 1
    /\ sent.accepted < Len(wrote[1])

C16_ShortWriteFatal ==
    ShortWritten
    => /\ nreads = 0
       /\ rxbuf = sent.before
       /\ (call.op \in TransmitOps => res.exc = "ConnectionError")
       /\ (call.op \in WriteToFlagOps => Returned(FALSE))
       /\ (call.op \in WriteToValueOps => res.exc = "" /\ res.val = None)

\* a Protocol 1 read whose packet was cut short, with bytes waiting
C16_Witness ==
    /\ ShortWritten
    /\ call.op = "v1_read"
    /\ sent.before # << >>
    /\ res.val = None
    /\ nreads = 0

----------------------------------------------------------------------------
(* C17: Connection.write_packet (v1.py, v2.py) and                         *)
(* BaseConnection.write_packet (base.py) retry until all bytes are         *)
(* accepted: for every sequence of partial write counts, each between 1    *)
(* and the number of bytes offered, the call returns only after every      *)
(* byte of the packet has been handed to the port exactly once and in      *)
(* order.                                                                  *)

\* the bytes the port took: of each buffer handed to serial.write, the
\* count it returned
RECURSIVE TakenBytes(_, _)
TakenBytes(written, counts) ==
    IF written = << >> THEN << >>
    ELSE Take(Head(written), write_count(counts, Head(written)))
             \o TakenBytes(Tail(written),
                           IF counts = << >> THEN counts ELSE Tail(counts))

C17_WritePacketComplete ==
    (Done /\ call.op \in {"v1_write_packet", "v2_write_packet", "base_write_packet"})
    => TakenBytes(wrote, sent.accepted) = call.args[1]

----------------------------------------------------------------------------
(* C18: factory_reset on Protocol 1 (DynamixelSerialV1 and v1.MotorBus)    *)
(* rejects the broadcast id: with dxl_id = 0xFE an assertion fails before  *)
(* any packet is built, so nothing is written and nothing is read; for     *)
(* every id in 0..0xFD it sends a FACTORY_RESET (0x06) packet with no      *)
(* params to that id.                                                      *)

\* FF FF id 02 06 checksum: the FACTORY_RESET packet with no params
ResetPacket(dxl_id) ==
    <<\hFF, \hFF, dxl_id, \h02, \h06, 255 - ((dxl_id + \h02 + \h06) % 256)>>

\* a Protocol 1 factory_reset; one that was not refused had its write
\* taken in full
FactoryResetV1 ==
    /\ Done
    /\ call.op \in {"v1_factory_reset", "bus_v1_factory_reset"}
    /\ (call.op = "v1_factory_reset" /\ wrote # << >> => Written)
    /\ (call.op = "bus_v1_factory_reset" => sent.accepted = << >>)

----------------------------------------------------------------------------
(* C19: the Protocol 1 call read(id=1, address=0x2B, length=4) places      *)
(* exactly the bytes FF FF 01 04 02 2B 04 CA on the wire.                  *)

\* read(1, 0x2B, 4) of DynamixelSerialV1 and of v1.MotorBus on a port that
\* takes every write in full
ReadS1 ==
    /\ Done
    /\ call.op \in {"v1_read", "bus_v1_read"}
    /\ call.packet_id = 1
    /\ call.args = <<\h2B, 4>>
    /\ (call.op = "v1_read" => Written)
    /\ (call.op = "bus_v1_read" => sent.accepted = << >>)

----------------------------------------------------------------------------
(* C20: for every valid Protocol 1 status frame with error 0 and params P  *)
(* of 1, 2 or 4 bytes, DynamixelSerialV1.read returns the big-endian merge *)
(* of P, the first byte the most significant (FF FF 01 06 00 20 01 02 03   *)
(* D2 gives 0x20010203); bulk_read returns the list of these values, one   *)
(* per status frame.                                                       *)

\* the value of 1, 2 or 4 bytes, the first one the most significant
BigEndian(P) ==
    IF Len(P) = 1 THEN P[1]
    ELSE IF Len(P) = 2 THEN P[1] * 256 + P[2]
    ELSE ((P[1] * 256 + P[2]) * 256 + P[3]) * 256 + P[4]

\* DynamixelSerialV1.read, written in full to a port with an empty buffer,
\* is answered by a valid zero-error frame with params of 1, 2 or 4 bytes
ReadAnswered ==
    /\ Done
    /\ call.op = "v1_read"
    /\ Written
    /\ sent.before = << >>
    /\ sent.reply.answered
    /\ sent.reply.flip = None
    /\ sent.reply.error = \h00
    /\ Len(sent.reply.params) \in {1, 2, 4}

\* DynamixelSerialV1.bulk_read, written in full to a port with an empty
\* buffer, is answered by every device with a valid zero-error frame
BulkReadAnswered ==
    /\ Done
    /\ call.op = "v1_bulk_read"
    /\ Written
    /\ sent.before = << >>
    /\ Len(Answers) = Addressed
    /\ \A i \in 1 .. Addressed : GoodAnswer(Answers[i])

C20_ReadDecodeV1 ==
    /\ (ReadAnswered
        => res.exc = "" /\ res.val = Some(BigEndian(sent.reply.params)))
    /\ (BulkReadAnswered
        => /\ res.exc = ""
           /\ res.val = Some([i \in 1 .. Addressed |->
                                  BigEndian(Answers[i].params)]))

\* the frame FF FF 01 06 00 20 01 02 03 D2 was decoded to 0x20010203
C20_Witness ==
    /\ ReadAnswered
    /\ sent.reply.stream =
           <<\hFF, \hFF, \h01, \h06, \h00, \h20, \h01, \h02, \h03, \hD2>>
    /\ res.val = Some(\h20010203)

----------------------------------------------------------------------------
(* C21: read(id, address, length) of Protocol 2 writes FF FF FD 00, id,    *)
(* the length field 07 00, the instruction 02, the address and the length  *)
(* as 2 little-endian bytes each, then the CRC; and for a valid zero-error *)
(* status with params P it returns a Response with ok true whose data is   *)
(* the little-endian merge of P (A6 01 01 01 gives 0x010101A6).            *)

\* the value of up to 4 bytes, the first one the least significant
LittleEndian(P) ==
    IF Len(P) = 0 THEN 0
    ELSE IF Len(P) = 1 THEN P[1]
    ELSE IF Len(P) = 2 THEN P[1] + 256 * P[2]
    ELSE IF Len(P) = 3 THEN P[1] + 256 * (P[2] + 256 * P[3])
    ELSE P[1] + 256 * (P[2] + 256 * (P[3] + 256 * P[4]))

\* DynamixelSerialV2.read(id, address, length) whose write was taken in full
ReadS2 == Done /\ call.op = "read" /\ Written

\* the twelve bytes of the instruction packet before its CRC
ReadS2Wire ==
    <<\hFF, \hFF, \hFD, \h00, call.packet_id, \h07, \h00, \h02,
      call.args[1] % 256, call.args[1] \div 256,
      call.args[2] % 256, call.args[2] \div 256>>

\* the port was empty and the first bytes to arrive are an intact zero-error
\* status frame
ReadS2Status ==
    /\ sent.before = << >>
    /\ sent.reply.answered
    /\ sent.reply.prefix = << >>
    /\ sent.reply.flip = None
    /\ sent.reply.error = \h00

C21_ReadV2 ==
    ReadS2
    => /\ wrote = << ReadS2Wire \o <<calc_crc_16(ReadS2Wire) % 256,
                                     calc_crc_16(ReadS2Wire) \div 256>> >>
       /\ (ReadS2Status => /\ res.exc = ""
                            /\ Response_ok(res.val[1])
                            /\ res.val[1].data =
                                   Some(LittleEndian(sent.reply.params)))

\* read(1, 0x0184, 4) answered with params A6 01 01 01 gave 0x010101A6
C21_Witness ==
    /\ ReadS2
    /\ call.packet_id = 1
    /\ call.args = <<\h0184, 4>>
    /\ Take(wrote[1], 12) = <<\hFF, \hFF, \hFD, \h00, \h01, \h07, \h00, \h02,
                              \h84, \h01, \h04, \h00>>
    /\ ReadS2Status
    /\ sent.reply.params = <<\hA6, \h01, \h01, \h01>>
    /\ res.val # None
    /\ res.val[1].data = Some(\h010101A6)

----------------------------------------------------------------------------
(* C22: calc_crc_16 equals the reference CRC-16/IBM computed bit by bit    *)
(* (polynomial 0x8005, initial value 0, most significant bit first, no     *)
(* reflection, no final XOR, 16 bits) for every byte string of a bounded   *)
(* length; each of the 256 table entries equals the bitwise CRC of its     *)
(* index byte.                                                             *)

\* n shifts of the register: the bit shifted out selects the polynomial
RECURSIVE CrcShift(_, _)
CrcShift(crc, n) ==
    IF n = 0 THEN crc
    ELSE CrcShift(IF crc >= 32768
                  THEN Xor((crc * 2) % 65536, \h8005)
                  ELSE crc * 2,
                  n - 1)

\* the bitwise CRC: each byte enters at the top of the register
RECURSIVE CrcBitwise(_, _)
CrcBitwise(crc, packet) ==
    IF packet = << >> THEN crc
    ELSE CrcBitwise(CrcShift(Xor(crc, Head(packet) * 256), 8), Tail(packet))

CrcComputed == Done /\ call.op = "calc_crc_16"

C22_CrcReference ==
    CrcComputed
    => /\ res.val = Some(CrcBitwise(0, call.args[1]))
       /\ (Len(call.args[1]) = 1
           => crc_table[call.args[1][1] + 1] = CrcBitwise(0, call.args[1]))

\* the crc of FF FD 80, a string of three bytes, is the reference one, and
\* not zero
C22_Witness ==
    /\ CrcComputed
    /\ call.args[1] = <<\hFF, \hFD, \h80>>
    /\ res.val = Some(CrcBitwise(0, <<\hFF, \hFD, \h80>>))
    /\ res.val # Some(0)

----------------------------------------------------------------------------
(* C23: no operation reports success from an unverified packet: whenever a *)
(* Protocol 2 operation returns a Response with ok true, or a Protocol 1   *)
(* operation returns True or a data value, every status packet that        *)
(* contributed to the result had a trailing CRC / checksum equal to the    *)
(* one recomputed over the bytes before it, as they were received.         *)

\* the bytes the call took from the port: what was waiting and what the
\* bus delivered, less what is still unread
Consumed ==
    Take(sent.before \o sent.reply.stream,
         Len(sent.before) + Len(sent.reply.stream) - Len(rxbuf))

\* c starts with a complete Protocol 2 frame whose last two bytes are the CRC
\* of the bytes before them
StartsVerifiedV2(c) ==
    /\ Len(c) >= 7
    /\ Take(c, 4) = <<\hFF, \hFF, \hFD, \h00>>
    /\ c[6] + 256 * c[7] >= 2
    /\ Len(c) >= 7 + c[6] + 256 * c[7]
    /\ LET n == 7 + c[6] + 256 * c[7]
       IN  calc_crc_16(Take(c, n - 2)) = c[n - 1] + 256 * c[n]

\* the number of frames in c, n counted so far, skipping the bytes between
\* them; -1 when a frame is incomplete or fails its CRC
RECURSIVE FramesV2(_, _)
FramesV2(c, n) ==
    IF c = << >> THEN n
    ELSE IF Len(c) >= 4 /\ Take(c, 4) = <<\hFF, \hFF, \hFD, \h00>>
        THEN IF StartsVerifiedV2(c)
             THEN FramesV2(Drop(c, 7 + c[6] + 256 * c[7]), n + 1)
             ELSE -1
    ELSE FramesV2(Tail(c), n)

\* c starts with a complete Protocol 1 frame whose last byte is the checksum
\* of the bytes from the id on
StartsVerifiedV1(c) ==
    /\ Len(c) >= 4
    /\ Take(c, 2) = <<\hFF, \hFF>>
    /\ c[4] >= 2
    /\ Len(c) >= 4 + c[4]
    /\ c[4 + c[4]] = 255 - (Sum(SubSeq(c, 3, 3 + c[4])) % 256)

RECURSIVE FramesV1(_, _)
FramesV1(c, n) ==
    IF c = << >> THEN n
    ELSE IF Len(c) >= 2 /\ Take(c, 2) = <<\hFF, \hFF>>
        THEN IF StartsVerifiedV1(c)
             THEN FramesV1(Drop(c, 4 + c[4]), n + 1)
             ELSE -1
    ELSE FramesV1(Tail(c), n)

\* a Protocol 2 operation returned a Response with ok true
SuccessV2 ==
    /\ Done
    /\ call.op \in {"ping", "read", "write", "sync_read", "bulk_read",
                    "broadcast_ping"}
    /\ res.exc = ""
    /\ res.val # None
    /\ Response_ok(res.val[1])

\* a Protocol 1 operation returned True, or a value
SuccessV1 ==
    /\ Done
    /\ res.exc = ""
    /\ \/ call.op \in {"v1_ping", "v1_write", "v1_reg_write", "v1_reboot"}
          /\ res.val = Some(TRUE)
       \/ call.op \in {"v1_read", "v1_bulk_read"} /\ res.val # None

\* the last bytes of c are a verified Protocol 2 frame
EndsVerifiedV2(c) ==
    \E k \in 0 .. Len(c) - 7 :
        /\ StartsVerifiedV2(Drop(c, k))
        /\ Len(c) - k = 7 + c[k + 6] + 256 * c[k + 7]

\* the last bytes of c are a verified Protocol 1 frame
EndsVerifiedV1(c) ==
    \E k \in 0 .. Len(c) - 4 :
        /\ StartsVerifiedV1(Drop(c, k))
        /\ Len(c) - k = 4 + c[k + 4]

\* the least number of status packets behind a success: a broadcast ping
\* that met no device, and a bulk read of no device, rest on none
NeedsFrames ==
    IF call.op = "broadcast_ping" THEN 0
    ELSE IF call.op = "v1_bulk_read" THEN Addressed
    ELSE 1

\* On a port that was empty every frame the call took is verified, and there
\* are as many as the result needs; on a port that held unread bytes, which
\* the scan for a header may skip, the packet read last is verified.
C23_VerifiedSuccess ==
    /\ (SuccessV2
        => /\ (sent.before = << >> => FramesV2(Consumed, 0) >= NeedsFrames)
           /\ (NeedsFrames > 0 => EndsVerifiedV2(Consumed)))
    /\ (SuccessV1
        => /\ (sent.before = << >> => FramesV1(Consumed, 0) >= NeedsFrames)
           /\ (NeedsFrames > 0 => EndsVerifiedV1(Consumed)))

\* a read that succeeded on a verified frame
C23_Witness ==
    /\ SuccessV2
    /\ call.op = "read"
    /\ sent.reply.answered
    /\ FramesV2(Consumed, 0) = 1

----------------------------------------------------------------------------
(* C24: every InstructionPacketV1 has length = len(params) + 2, every      *)
(* InstructionPacketV2 has length = len(params) + 3, and every Protocol 2  *)
(* status packet returned by receive, the CRC-valid packets from which     *)
(* stuffing was removed included, has length = len(params) + 4.            *)

\* the instruction packets built from the arguments of a transmit, as
\* constructed and after add_stuffing
BuiltV2 == InstructionPacketV2(call.packet_id, call.args[1], call.args[2])
BuiltV1 == InstructionPacketV1(call.packet_id, call.args[1], call.args[2])

C24_LengthInvariant ==
    /\ (Done /\ call.op = "transmit"
        => /\ BuiltV1.length = Len(BuiltV1.params) + 2
           /\ BuiltV2.length = Len(BuiltV2.params) + 3
           /\ add_stuffing(BuiltV2).length = Len(add_stuffing(BuiltV2).params) + 3)
    /\ (Done /\ call.op = "receive" /\ res.exc = "" /\ res.val # None
        => res.val[1].length = Len(res.val[1].params) + 4)

----------------------------------------------------------------------------
(* C25: in sync_read / bulk_read of Protocol 2 and bulk_read of Protocol 1 *)
(* the i-th element of the returned data list is the decoded value of the  *)
(* i-th status packet that arrived on the wire, whatever the id in that    *)
(* packet and whatever order the caller listed the ids in.                 *)

\* a gather, written in full to a port with an empty buffer, returned the
\* list of values D
GatherReturned(D) ==
    /\ Done
    /\ Written
    /\ sent.before = << >>
    /\ res.exc = ""
    /\ res.val # None
    /\ \/ call.op \in GatherReads /\ res.val[1].data = Some(D)
       \/ call.op = "v1_bulk_read" /\ res.val = Some(D)

\* the decoded value of the i-th status packet that arrived
ArrivedValue(i) ==
    IF call.op = "v1_bulk_read" THEN BigEndian(Answers[i].params)
    ELSE LittleEndian(Answers[i].params)

\* the data list D follows the order of arrival
InReplyOrder(D) ==
    \A i \in 1 .. Len(D) : i <= Len(Answers) /\ D[i] = ArrivedValue(i)

C25_ReplyOrder ==
    \A n \in 0 .. MaxDevices :
        \A D \in [1 .. n -> {\h05, \h0102, \h20010203, \h260406, \h250405}] :
            GatherReturned(D) => InReplyOrder(D)


----------------------------------------------------------------------------
(* C26: the decoding of a fast read                                        *)

FastReads == {"fast_sync_read", "fast_bulk_read"}

\* a fast read whose instruction packet went out whole
FastRead == Done /\ call.op \in FastReads /\ Written

\* the per-device lengths L1 .. Ln the call asked for
FastAsked ==
    IF call.op = "fast_bulk_read" THEN call.args[3]
    ELSE [i \in DOMAIN call.args[1] |-> call.args[3]]

\* all n >= 1 devices answered in one status packet that arrived first on
\* an empty port
FastAnswered ==
    /\ Len(call.args[1]) >= 1
    /\ sent.before = << >>
    /\ sent.reply.answered
    /\ Len(sent.reply.answers) = Len(call.args[1])

\* the error byte of every device is zero
FastClean == \A i \in DOMAIN sent.reply.answers : sent.reply.answers[i].error = \h00

\* C26: a fast sync read or fast bulk read over n >= 1 devices with the
\* lengths L1 .. Ln, answered by a single valid status packet with error 0
\* whose params are id1, value1 and then crc_lo, crc_hi, error_i = 0, id_i,
\* value_i for each further device, consumes exactly that status packet and
\* returns a Response with ok true whose data are the little-endian merges
\* of value_1 .. value_n in that order.
C26_FastDecode ==
    (FastRead /\ FastAnswered /\ FastClean)
    => /\ res.exc = ""
       /\ Response_ok(res.val[1])
       /\ res.val[1].data =
              Some([i \in DOMAIN sent.reply.answers |->
                       LittleEndian(sent.reply.answers[i].value)])
       /\ Consumed = sent.reply.frame
       /\ rxbuf = sent.reply.tail

\* a fast bulk read of three devices with lengths 4, 2, 1 has returned the
\* three values, a stray byte behind the status packet left in the port
C26_Witness ==
    /\ FastRead /\ FastAnswered /\ FastClean
    /\ call.op = "fast_bulk_read"
    /\ FastAsked = <<4, 2, 1>>
    /\ sent.reply.tail = <<\h00>>
    /\ res.exc = ""
    /\ res.val[1].data = Some(<<\h14131211, \h1211, \h11>>)


----------------------------------------------------------------------------
(* C27: the hardware alert of a fast read                                  *)

\* device i is the first whose error byte is not zero, and its error byte
\* has bit 0x80 set
FastAlertAt(i) ==
    /\ i \in DOMAIN sent.reply.answers
    /\ hardware_alert(sent.reply.answers[i].error)
    /\ \A j \in 1 .. i - 1 : sent.reply.answers[j].error = \h00

\* C27: in a fast sync read or fast bulk read, an error byte with bit 0x80
\* set at any position i in 1 .. n, the first device included, raises the
\* hardware alert carrying the id of device i as its sub-frame gives it.
C27_FastAlertId ==
    \A i \in 1 .. MaxDevices + 1 :
        (FastRead /\ sent.before = << >> /\ sent.reply.answered /\ FastAlertAt(i))
        => /\ res.exc = "HardwareError"
           /\ res.hw_id = Some(sent.reply.answers[i].id)


----------------------------------------------------------------------------
(* C28: the wire encoding of v2.py                                         *)

\* FF FF FD becomes FF FF FD FD wherever it occurs in the params; seen
\* counts the FF bytes that directly precede the next byte
RECURSIVE Stuffed(_, _)
Stuffed(params, seen) ==
    IF params = << >> THEN << >>
    ELSE IF Head(params) = \hFD /\ seen >= 2
        THEN <<\hFD, \hFD>> \o Stuffed(Tail(params), 0)
    ELSE <<Head(params)>>
             \o Stuffed(Tail(params), IF Head(params) = \hFF THEN seen + 1 ELSE 0)

\* the reference encoding up to the CRC: FF FF FD 00, id, the length
\* len(stuffed params) + 3 in two bytes, low byte first, the instruction,
\* the stuffed params
ReferenceV2(packet_id, instruction, params) ==
    <<\hFF, \hFF, \hFD, \h00, packet_id,
      (Len(Stuffed(params, 0)) + 3) % 256, (Len(Stuffed(params, 0)) + 3) \div 256,
      instruction>> \o Stuffed(params, 0)

\* C28: for every id, instruction and params, params that contain FF FF FD
\* included, the buffer that InstructionPacket.raw of v2.py hands to
\* Connection.write_packet is the reference encoding followed by the CRC of
\* exactly those bytes, low byte first.
\* the reference encoding with its CRC, low byte first
ReferenceV2Wire(packet_id, instruction, params) ==
    ReferenceV2(packet_id, instruction, params)
        \o <<calc_crc_16(ReferenceV2(packet_id, instruction, params)) % 256,
             calc_crc_16(ReferenceV2(packet_id, instruction, params)) \div 256>>

C28_WireV2 ==
    (Done /\ call.op = "v2_wire")
    => wrote = << ReferenceV2Wire(call.packet_id, call.args[1], call.args[2]) >>


----------------------------------------------------------------------------
(* C29: the wire layout of the Protocol 1 instruction packets              *)

\* the sum of the bytes from the id through the last param
WireSumV1 == call.packet_id + (Len(call.args[2]) + 2) + call.args[1] + Sum(call.args[2])

\* FF FF, id, length = len(params) + 2, instruction, params, and the one
\* checksum byte (~S) & 0xFF, which is 255 - S % 256
ReferenceV1 ==
    <<\hFF, \hFF, call.packet_id, Len(call.args[2]) + 2, call.args[1]>>
        \o call.args[2] \o <<255 - (WireSumV1 % 256)>>

\* C29: every Protocol 1 instruction packet handed to the serial port, by
\* InstructionPacketV1.write_to of protocol_v1.py and by InstructionPacket.raw
\* of v1.py, is FF FF, id, length = len(params) + 2, instruction, params and
\* a single checksum byte (~S) & 0xFF, S being the sum of the bytes from the
\* id through the last param: len(params) + 6 bytes in all.
C29_WireV1 ==
    (Done /\ call.op \in {"write_to", "v1_wire"})
    => /\ wrote = << ReferenceV1 >>
       /\ Len(wrote[1]) = Len(call.args[2]) + 6


----------------------------------------------------------------------------
(* C30: the host writes, then reads                                        *)

\* the operations of DynamixelSerialV2 and of DynamixelSerialV1
SerialOpsV2 ==
    {"ping", "read", "write", "reg_write", "action", "factory_reset", "reboot",
     "clear", "control_table_backup", "sync_read", "bulk_read",
     "broadcast_ping", "sync_write", "bulk_write", "fast_sync_read",
     "fast_bulk_read"}

SerialOpsV1 ==
    {"v1_ping", "v1_read", "v1_write", "v1_reg_write", "v1_action",
     "v1_factory_reset", "v1_reboot", "v1_sync_write", "v1_bulk_read"}

\* the call was turned down by an assertion on its arguments before it
\* touched the port
TurnedDown == res.exc = "AssertionError" /\ wrote = << >> /\ nreads = 0

\* an operation that was carried out
Operated == Done /\ call.op \in SerialOpsV2 \cup SerialOpsV1 /\ ~TurnedDown

\* buffer is one whole instruction packet: the header, and a length field
\* that counts the bytes behind it up to the end of the buffer
OnePacket(op, buffer) ==
    IF op \in SerialOpsV2
    THEN /\ Len(buffer) >= 10
         /\ Take(buffer, 4) = <<\hFF, \hFF, \hFD, \h00>>
         /\ buffer[6] + 256 * buffer[7] = Len(buffer) - 7
    ELSE /\ Len(buffer) >= 6
         /\ Take(buffer, 2) = <<\hFF, \hFF>>
         /\ buffer[4] = Len(buffer) - 4

\* C30: every operation of DynamixelSerialV1 and DynamixelSerialV2 hands
\* exactly one instruction packet to the port in a single call of ser.write,
\* made before the first ser.read of the operation; it reads only once the
\* port has taken the whole packet, and it never writes again after it has
\* started to read.
C30_HalfDuplex ==
    Operated
    => /\ Len(wrote) = 1
       /\ OnePacket(call.op, wrote[1])
       /\ wrote_at = <<0>>
       /\ (nreads > 0 => sent.accepted >= Len(wrote[1]))

\* a sync read of three devices wrote its packet once and then made its
\* reads, the three answers among them
C30_Witness ==
    /\ Operated
    /\ call.op = "sync_read"
    /\ Len(call.args[1]) = 3
    /\ wrote_at = <<0>>
    /\ Len(wrote) = 1
    /\ nreads >= 6
    /\ res.exc = ""


----------------------------------------------------------------------------
(* C31: the gathers are bounded                                            *)

BoundedOps == {"sync_read", "bulk_read", "v1_bulk_read"}

\* a gather that was written in full to a port with an empty buffer
BoundedGather ==
    Done /\ call.op \in BoundedOps /\ Written /\ sent.before = << >>

\* the frames of the answers from position i on, as they arrived
ArrivedFrom(i) ==
    IF call.op = "v1_bulk_read" THEN v1_answer_stream(Answers, i)
    ELSE answer_stream(Answers, i)

\* the serial reads that take one whole status packet from the port: the
\* header, the id and length (with the header in Protocol 1), the rest
ReadsPerPacket == IF call.op = "v1_bulk_read" THEN 2 ELSE 3

\* the gather took exactly the first c status packets from the port, none
\* of them behind a CRC-invalid one, and made at most one attempt more,
\* which found nothing, and none once it had N packets or a CRC-invalid one
TookPackets(c) ==
    /\ rxbuf = ArrivedFrom(c + 1)
    /\ \A j \in 1 .. c - 1 : ~Answers[j].broken
    /\ nreads <= ReadsPerPacket * c
                 + (IF c < Addressed /\ (c = 0 \/ ~Answers[c].broken)
                    THEN 1 ELSE 0)

\* the result that stands for a timeout: Response(timeout=True) in
\* Protocol 2, None in Protocol 1
TimeoutResult ==
    /\ res.exc = ""
    /\ IF call.op = "v1_bulk_read" THEN res.val = None
       ELSE res.val # None /\ res.val[1].timeout = Some(TRUE)

\* the packet was written and nothing was read
WroteOnly == Len(wrote) = 1 /\ nreads = 0

\* the gathers over N ids take at most N status packets and read nothing
\* more once they have N or have seen a null or CRC-invalid one
BoundedReads ==
    BoundedGather
    => \E c \in 0 .. Min(Addressed, Len(Answers)) : TookPackets(c)

\* C31 as stated: v2 sync_read / bulk_read and v1 bulk_read over N ids
\* attempt to receive at most N status packets and read nothing more once
\* they have N or have seen the first null or CRC-invalid one; with N = 0
\* the instruction is written and a timeout result is returned without any
\* read.
C31_Original ==
    /\ BoundedReads
    /\ (BoundedGather /\ Addressed = 0 => WroteOnly /\ TimeoutResult)

\* what a gather over no ids returns: Response(timeout=True) in Protocol 2,
\* the empty list in Protocol 1
EmptyResult ==
    /\ res.exc = ""
    /\ IF call.op = "v1_bulk_read" THEN res.val = Some(<< >>)
       ELSE res.val # None /\ res.val[1].timeout = Some(TRUE)

\* C31: v2 sync_read / bulk_read and v1 bulk_read over N ids attempt to
\* receive at most N status packets and read nothing more once they have N
\* or have seen the first null or CRC-invalid one; with N = 0 the
\* instruction is written and, without any read, Protocol 2 returns a
\* timeout result and Protocol 1 the empty list.
C31_BoundedGather ==
    /\ BoundedReads
    /\ (BoundedGather /\ Addressed = 0 => WroteOnly /\ EmptyResult)

\* a sync read of two devices took the two status packets in six reads and
\* left the packet a third device sent in the port
C31_Witness ==
    /\ BoundedGather
    /\ call.op = "sync_read"
    /\ Addressed = 2
    /\ Len(Answers) = 3
    /\ nreads = 6
    /\ rxbuf = ArrivedFrom(3)
    /\ rxbuf # << >>
    /\ res.exc = ""


-----------------------------------------------------------------------------
(* C32: broadcast_ping with no device answering                            *)

\* a broadcast_ping written in full to an empty port on a bus where no
\* device answers: the first receive times out
PingSilent ==
    /\ Done
    /\ call.op = "broadcast_ping"
    /\ Written
    /\ sent.before = << >>
    /\ Answers = << >>

\* C32: broadcast_ping with no device answering (the first receive times
\* out) returns a Response with timeout true, hence not ok.
C32_SilentPing ==
    PingSilent
    => /\ res.exc = ""
       /\ res.val # None
       /\ res.val[1].timeout = Some(TRUE)
       /\ ~Response_ok(res.val[1])


-----------------------------------------------------------------------------
(* C33: the receive loop terminates                                        *)

\* a call of receive or read_from is in progress
Receiving == pc = "busy"

\* the call has returned or raised
LineReturned == pc = "done" /\ call.op \in {"receive", "read_from"}

\* every call of receive and read_from ends, whatever the line delivers
ReceiveTerminates == Receiving ~> LineReturned

\* the call ended in one of the three ways: a packet, null, the alert
PacketNullOrAlert ==
    \/ res.exc = ""
    \/ res.exc = "HardwareError" /\ call.op = "receive"

\* the header loop has ended on its deadline, no header matched
DeadlineElapsed == LineReturned /\ run.stage = "elapsed"

\* C33: with a finite serial timeout, every call of receive / find_header
\* and of StatusPacketV1.read_from eventually ends, by returning a packet,
\* by returning null or by raising the hardware alert, whatever the line
\* delivers, an endless stream of bytes that never forms a header included;
\* when the header deadline has elapsed without a match the result is null.
C33_ReceiveLoop ==
    /\ ReceiveTerminates
    /\ [](LineReturned => PacketNullOrAlert)
    /\ [](DeadlineElapsed => res = NoRes)


-----------------------------------------------------------------------------
(* C34: short reads yield null                                             *)

\* the calls that parse one status packet, and the transactions on them
ParsersV2 == {"receive"}
ParsersV1 == {"read_from"}
ExchangesV2 == {"ping", "read", "write"}
ExchangesV1 == {"v1_ping", "v1_read", "v1_write", "v1_reg_write"}

\* the bytes of the header of the protocol the call speaks
HeaderLength ==
    IF call.op \in ParsersV1 \cup ExchangesV1 THEN Len(HEADER_V1)
    ELSE Len(HEADER_V2)

\* the length field as it arrived, when it arrived whole
ArrivedLength ==
    IF call.op \in ParsersV1 \cup ExchangesV1
    THEN IF Len(sent.reply.stream) >= 4
         THEN Some(sent.reply.stream[4]) ELSE None
    ELSE IF Len(sent.reply.stream) >= 7
         THEN Some(merge_bytes(SubSeq(sent.reply.stream, 6, 7))) ELSE None

\* the bytes that arrived after the length field
ArrivedBody ==
    Len(sent.reply.stream) - HeaderLength
        - (IF call.op \in ParsersV1 \cup ExchangesV1 THEN 2 ELSE 3)

\* a call on an empty port, its instruction (if it has one) written in full,
\* met a status frame whose header arrived whole and whose id and length,
\* or whose body of `length` bytes, did not
ShortArrival ==
    /\ Done
    /\ call.op \in ParsersV2 \cup ParsersV1 \cup ExchangesV2 \cup ExchangesV1
    /\ call.op \in ExchangesV2 \cup ExchangesV1 => Written
    /\ sent.before = << >>
    /\ sent.reply.answered
    /\ Len(sent.reply.stream) >= HeaderLength
    /\ \/ ArrivedLength = None
       \/ ArrivedBody < ArrivedLength[1]

\* C34: after a header is found, if fewer than the id and length bytes or
\* fewer than `length` body bytes arrive before the read times out (the
\* frame stopped short, or its length field arrived raised), the parser
\* returns null and the transaction is a timeout (Protocol 1: False or
\* None), never corrupted and never a packet built from a partial body.
C34_ShortReads ==
    ShortArrival
    => /\ res.exc = ""
       /\ rxbuf = << >>
       /\ call.op \in ParsersV2 \cup ParsersV1 => res.val = None
       /\ call.op \in ExchangesV2
          => /\ res.val # None
             /\ res.val[1].timeout = Some(TRUE)
             /\ res.val[1].corrupted # Some(TRUE)
             /\ res.val[1].data = None
       /\ call.op \in ExchangesV1 \ {"v1_read"} => res.val = Some(FALSE)
       /\ call.op = "v1_read" => res.val = None

\* a read met a status frame whose length field arrived raised from 7 to 8:
\* the seven bytes that follow are all read and the result is a timeout
C34_Witness ==
    /\ ShortArrival
    /\ call.op = "read"
    /\ sent.reply.flip = Some(<<6, 8>>)
    /\ ArrivedLength = Some(8)
    /\ ArrivedBody = 7
    /\ res.val[1].timeout = Some(TRUE)


-----------------------------------------------------------------------------
(* C35: the parameter builders never mix kinds                             *)

\* the kind of entry a method adds
KindOf(op) == IF op \in {"add_motor", "add_address"} THEN "READ" ELSE "WRITE"

\* the bytes a call of either kind appends when it is accepted
EntryBytes(c) ==
    IF builder.class = "SyncParams"
    THEN IF KindOf(c) = "READ" THEN 1 ELSE 1 + builder.length
    ELSE 5

\* the calls accepted so far are all of the kind of the first of them, and
\* num_motors counts them
OneKind ==
    /\ \A i \in DOMAIN builder.accepted :
         KindOf(builder.accepted[i]) = KindOf(builder.accepted[1])
    /\ builder.accepted # << >>
       => builder.type = Some(KindOf(builder.accepted[1]))
    /\ builder.num_motors = Len(builder.accepted)
    /\ builder.class = "BulkParams" /\ builder.type = Some("READ")
       => Len(builder.lengths) = builder.num_motors

\* a step that calls the method of the other kind on a builder whose type
\* is set
Mixing ==
    /\ pc = "idle"
    /\ pc' = "done"
    /\ builder.type # None
    /\ builder.type # Some(KindOf(call'.op))

\* the call failed its assertion and left the object as it was
TurnedAway ==
    /\ res'.exc = "AssertionError"
    /\ builder'.params = builder.params
    /\ builder'.num_motors = builder.num_motors
    /\ builder'.type = builder.type
    /\ builder'.accepted = builder.accepted

\* C35: after any sequence of add_motor / add_value calls on a SyncParams
\* (add_address / add_value on a BulkParams) all accepted calls are of the
\* kind of the first accepted one; a call of the other kind fails its
\* assertion and leaves the param bytes, num_motors and type unchanged; and
\* num_motors equals the number of accepted calls.
C35_NeverMixed == [](OneKind) /\ [][Mixing => TurnedAway]_vars

\* an add_motor was turned away on a SyncParams that holds two values
C35_Witness ==
    /\ Done
    /\ builder.class = "SyncParams"
    /\ call.op = "add_motor"
    /\ res.exc = "AssertionError"
    /\ builder.accepted = <<"add_value", "add_value">>
    /\ builder.num_motors = 2
    /\ builder.type = Some("WRITE")


-----------------------------------------------------------------------------
(* C36: crash freedom on malformed input                                   *)

\* the call failed on an index or on an unpacking
Crashed == res.exc \in {"IndexError", "ValueError"}

\* C36: whatever bytes the port delivers, every DynamixelSerialV1 /
\* DynamixelSerialV2 operation returns its result or raises the hardware
\* alert; it never fails with an index or unpacking error.
C36_CrashFree == Done => ~Crashed


-----------------------------------------------------------------------------
(* C37: reply attribution                                                  *)

\* a unicast operation addressed to one device, its instruction written in
\* full, took the one intact status frame the bus delivered and returned
\* success
UnicastSuccess ==
    /\ Done
    /\ call.op \in UnicastOps
    /\ call.packet_id # BROADCAST_ID
    /\ Written
    /\ CleanReply
    /\ res.exc = ""
    /\ res.val # None
    /\ Response_ok(res.val[1])

\* C37: whenever a unicast operation addressed to device X (X # 0xFE)
\* returns success, the status packet it accepted carried packet id X.
C37_ReplyAttribution ==
    UnicastSuccess => sent.reply.packet_id = call.packet_id


-----------------------------------------------------------------------------
(* C38: no stale replies across transactions                               *)

\* an operation that reads one status returned success: a Response that is
\* ok
Succeeded ==
    /\ Done
    /\ call.op \in UnicastOps
    /\ Written
    /\ res.exc = ""
    /\ res.val # None
    /\ Response_ok(res.val[1])

\* the bytes the call took from the port reach into what the devices sent
\* after its own instruction was written
TookOwnReply == Len(Consumed) > Len(sent.before)

\* C38: over any sequence of operations on one bus, the result of an
\* operation is derived only from bytes that devices sent in reply to its
\* own instruction: a success is never made of status bytes an earlier
\* operation left unread.
C38_NoStaleReply == Succeeded => TookOwnReply


-----------------------------------------------------------------------------
(* C39: complete gather on success                                         *)

\* a sync_read or bulk_read returned a Response that is ok
GatherSucceeded ==
    /\ Done
    /\ call.op \in {"sync_read", "bulk_read"}
    /\ res.exc = ""
    /\ res.val # None
    /\ Response_ok(res.val[1])

\* C39: whenever sync_read / bulk_read called with N ids returns a Response
\* that is ok, its data list has exactly N elements, one per requested
\* device.
C39_CompleteGather ==
    GatherSucceeded
    => /\ res.val[1].data # None
       /\ Len(res.val[1].data[1]) = Addressed


-----------------------------------------------------------------------------
(* C40: Protocol 1 value round trip                                        *)

\* C40: for every width n in {1, 2, 4} and every unsigned value v < 256^n,
\* merge_bytes(split_bytes(v, n_bytes=n)) = v in protocol_v1.py.
C40_RoundTripV1 ==
    Done /\ call.op = "v1_round_trip" => res.val = Some(call.args[1])

====
